---- MODULE Spec2Model ----
(***************************************************************************)
(* Scheduling and lifecycle core of the neutrino node orchestrator:        *)
(* worker pool, resource-aware selection, request dispatch over the        *)
(* per-worker socket, the memory monitor / recycler and shutdown.          *)
(*                                                                         *)
(* Indices into the pool are 0-based as in the source; At(ws, i) reads     *)
(* element i of a Vec.  Resource amounts (f64 in the source) are modelled  *)
(* by whole numbers.  A '-'-separated string (pool name, worker id) is the *)
(* sequence of its segments, so that format!("{}-{}") and split('-') are   *)
(* modelled by what they do.                                               *)
(***************************************************************************)
EXTENDS Integers, Sequences, FiniteSets, TLC

VARIABLES
    config,              \* Orchestrator.config.orchestrator.worker_pools
    phase,               \* "new" | "running" | "failed": progress of start()
    workers,             \* Orchestrator.workers: Vec<WorkerHandle>
    next_worker_index,   \* Orchestrator.next_worker_index
    lock,                \* holder of the write half of the workers RwLock
    monitoring_task,     \* "none" | "running" | "aborted": the JoinHandle
    rpc,                 \* recycler task: "sleep" | "recycling" | "cancelled"
    workers_to_recycle,  \* indices collected by the current tick
    recycling,           \* recycle_worker_at_index between remove and insert
    shutdown_pc,         \* Orchestrator::shutdown: "none" | "aborted" | "done"
    pc,                  \* request handler position
    req,                 \* request handler: metadata.resources
    sel,                 \* request handler: worker_idx
    outcome,             \* request handler: result of the last request
    expirations,         \* number of worker lifetimes that have elapsed
    selId,               \* history: id of the worker the selector chose
    allocBefore,         \* history: allocation of the worker before allocate
    arrivedFull,         \* history: no worker had room when the request arrived
    lastRemoved,         \* history: the worker the recycler removed last
    deferred,            \* history: ids for which should_recycle held while Busy
    sampled,             \* history: ids of the Idle workers whose memory the tick read
    collected,           \* history: <<idx, id>> of the workers the tick collected
    heartbeats,          \* number of Heartbeat messages the workers have sent
    sockets,             \* ids whose socket file /tmp/neutrino-<id>.sock exists
    orphans,             \* ids with a child whose handle was dropped without wait()
    announced,           \* history: the capabilities in the WorkerReady of each child that
                         \* connected and sent WorkerReady first in start(), by id
    host,                \* whether the behaviour follows sockets and orphans
    picks,               \* history: how often the selector returned each index of the
                         \* pool (<< >>: not counted)
    backends,            \* gateway: BackendPool.backends: Vec<Backend>
    gw_phase,            \* gateway: "new" | "serving": progress of main
    selected,            \* gateway history: the last results of find_backend_with_resources
    proxy,               \* gateway: the proxy_handler calls in progress
    channel,             \* gateway: the log entries queued for db_writer_task
    writer,              \* gateway: db_writer_task: entry in hand, attempt, sleeps
    db,                  \* gateway: the rows of the tasks table, by id
    app_state,           \* gateway: the AppState the router hands to proxy_handler
    discovery,           \* gateway: the cluster-API discovery: the pod list in hand
    codec                \* a JSON value and what the msgpack conversions made of it

coreVars == <<config, phase, workers, next_worker_index, lock, monitoring_task, rpc,
              workers_to_recycle, recycling, shutdown_pc, pc, req, sel, outcome,
              expirations, selId, allocBefore, arrivedFull, lastRemoved,
              deferred, sampled, collected, heartbeats, sockets, orphans, announced, host, picks>>
gatewayVars == <<backends, gw_phase, selected, proxy, channel, writer, db, app_state,
                 discovery>>
codecVars == <<codec>>

vars == <<coreVars, gatewayVars, codecVars>>

handlerVars == <<pc, req, sel, outcome, selId, allocBefore, arrivedFull>>
recyclerVars == <<rpc, workers_to_recycle, recycling, lastRemoved, sampled, collected>>
resourceVars == <<sockets, orphans>>

(***************************************************************************)
(* Bounds of the model.                                                    *)
(***************************************************************************)
MaxExpirations == 1
MaxHeartbeats == 1
MaxRequests == 5

Handlers == {"h1", "h2"}

None == [none |-> TRUE]
Some(v) == [some |-> v]

(***************************************************************************)
(* Resources.                                                              *)
(***************************************************************************)
Res(c, g, m) == [num_cpus |-> c, num_gpus |-> g, memory_gb |-> m]

\* ResourceAllocation::default
ZeroAllocation == Res(0, 0, 0)

\* the resource requirements of the registered routes
Requirements == {Res(1, 1, 1), Res(1, 0, 2), Res(2, 0, 4)}

Max(a, b) == IF a >= b THEN a ELSE b

\* ResourceAllocation::allocate
allocate(a, r) ==
    Res(a.num_cpus + r.num_cpus, a.num_gpus + r.num_gpus, a.memory_gb + r.memory_gb)

deallocateNoMemory(a, r) ==
    Res(Max(a.num_cpus - r.num_cpus, 0), Max(a.num_gpus - r.num_gpus, 0), a.memory_gb)

\* ResourceAllocation::deallocate
deallocate(a, r) ==
    Res(Max(a.num_cpus - r.num_cpus, 0),
        Max(a.num_gpus - r.num_gpus, 0),
        Max(a.memory_gb - r.memory_gb, 0))

\* Worker::has_capacity
has_capacity(w, r) ==
    LET available_cpus == w.capabilities.num_cpus - w.allocation.num_cpus
        available_gpus == w.capabilities.num_gpus - w.allocation.num_gpus
        available_memory_gb == w.capabilities.memory_gb - w.allocation.memory_gb
    IN  /\ available_cpus >= r.num_cpus
        /\ available_gpus >= r.num_gpus
        /\ available_memory_gb >= r.memory_gb

(***************************************************************************)
(* Vec operations.                                                         *)
(***************************************************************************)
At(ws, i) == ws[i + 1]

\* Vec::remove(idx)
VecRemove(ws, idx) == [k \in 1..(Len(ws) - 1) |-> IF k <= idx THEN ws[k] ELSE ws[k + 1]]

\* Vec::insert(idx, x)
VecInsert(ws, idx, x) ==
    [k \in 1..(Len(ws) + 1) |->
        IF k <= idx THEN ws[k] ELSE IF k = idx + 1 THEN x ELSE ws[k - 1]]

SetAt(ws, i, w) == [ws EXCEPT ![i + 1] = w]

(***************************************************************************)
(* Configuration: worker pools and recycling thresholds.                   *)
(***************************************************************************)
Pool(n, c, r, d) == [name |-> n, count |-> c, resources |-> r, gpu_devices |-> d]

\* a GPU pool "node-gpu" pinned to device 3 and a CPU-only pool "node", one
\* worker each
NodePools ==
    << Pool(<<"node", "gpu">>, 1, Res(2, 1, 4), <<3>>),
       Pool(<<"node">>, 1, Res(2, 0, 4), << >>) >>

Configs == {NodePools}

\* WorkerConfig (Config::default)
max_tasks_per_worker == 1000
max_memory_mb == 4096

\* VmRSS values (kB) a /proc/<pid>/status read can give
VmRSSkB == {512, 4194304}

\* memory::get_process_memory_mb: Ok(kb / 1024), or an error
get_process_memory_mb(kb) == kb \div 1024

\* usize::to_string and str::parse::<usize> on the pool indices in use
IdxStr == <<"0", "1", "2", "3">>
ParseUsize(s) ==
    IF \E n \in 1..Len(IdxStr) : IdxStr[n] = s
    THEN [ok |-> TRUE, val |-> (CHOOSE n \in 1..Len(IdxStr) : IdxStr[n] = s) - 1]
    ELSE [ok |-> FALSE, val |-> 0]

\* format!("{}-{}", pool.name, pool_idx)
WorkerId(pool, pool_idx) == Append(pool.name, IdxStr[pool_idx + 1])

\* per-index GPU assignment (start and recycle_worker_at_index)
GpuAssign(pool, pool_idx) ==
    IF pool.gpu_devices # <<>> /\ pool.resources.num_gpus > 0
    THEN << pool.gpu_devices[(pool_idx % Len(pool.gpu_devices)) + 1] >>
    ELSE << >>

(***************************************************************************)
(* Worker records and messages.                                            *)
(***************************************************************************)
\* Message::WorkerReady / TaskResult / Heartbeat as received from a worker
WorkerReady(caps) == [type |-> "WorkerReady", capabilities |-> caps]
TaskResult(task_id, success) == [type |-> "TaskResult", task_id |-> task_id, success |-> success]
Heartbeat == [type |-> "Heartbeat"]

\* the handle WorkerHandle::spawn returns: record in Starting, zero allocation.
\* origin is the (pool, pool_idx) slot start() spawned the id for, spec the
\* pool whose spec this spawn used; inbox and out are the child's side of the socket.
SpawnedWorker(id, caps, gpu_devices, origin, spec) ==
    [id |-> id, state |-> "Starting", capabilities |-> caps,
     allocation |-> ZeroAllocation, gpu_devices |-> gpu_devices,
     tasks_completed |-> 0, current_memory_mb |-> 0, expired |-> FALSE,
     origin |-> origin, spec |-> spec, inbox |-> <<>>, out |-> <<>>]

wait_ready_any(h, msg) == [ok |-> TRUE, handle |-> [h EXCEPT !.state = "Idle"]]

\* WorkerHandle::wait_ready on the first message the child sends
wait_ready(h, msg) ==
    IF msg.type = "WorkerReady"
    THEN [ok |-> TRUE, handle |-> [h EXCEPT !.state = "Idle", !.capabilities = msg.capabilities]]
    ELSE [ok |-> FALSE, handle |-> h]

\* the first message of a child: WorkerReady echoing the capabilities it was
\* started with, or something else
FirstMessages(caps) == {WorkerReady(caps), Heartbeat}

\* Worker::update_memory
update_memory(w, memory_mb) == [w EXCEPT !.current_memory_mb = memory_mb]

\* Worker::should_recycle
should_recycle(w) ==
    \/ w.tasks_completed >= max_tasks_per_worker
    \/ w.current_memory_mb >= max_memory_mb
    \/ w.expired

(***************************************************************************)
(* Orchestrator::find_worker_with_resources.                               *)
(***************************************************************************)
is_gpu_task(r) == r.num_gpus > 0
is_gpu_worker(w) == w.capabilities.num_gpus > 0

\* first pass: idle worker of a matching profile with capacity
Pass1(w, r) ==
    /\ ~(is_gpu_task(r) /\ ~is_gpu_worker(w))
    /\ w.state = "Idle" /\ has_capacity(w, r)

Pass2AnyWorker(w, r) == TRUE

Pass2SameProfile(w, r) ==
    /\ is_gpu_task(r) = is_gpu_worker(w)
    /\ has_capacity(w, r)

\* second pass: any state, matching profile, with capacity
Pass2(w, r) ==
    /\ ~(is_gpu_task(r) /\ ~is_gpu_worker(w))
    /\ has_capacity(w, r)

\* third pass (CPU-only tasks): idle with capacity, then any with capacity
Pass3a(w, r) == w.state = "Idle" /\ has_capacity(w, r)
Pass3b(w, r) == has_capacity(w, r)

\* for offset in 0..worker_count: the first worker in cursor order that
\* matches; matches[k] tells whether the worker at index k - 1 does
Scan(ws, start_index, matches) ==
    LET n == Len(ws)
        hits == {o \in 0..(n - 1) : matches[((start_index + o) % n) + 1]}
    IN  IF hits = {} THEN [some |-> FALSE, idx |-> 0]
        ELSE [some |-> TRUE,
              idx |-> (start_index + (CHOOSE o \in hits : \A q \in hits : o <= q)) % n]

\* the Option<usize> returned for the pool ws, cursor start_index and request r
find_worker_with_resources(ws, start_index, r) ==
    LET r1 == Scan(ws, start_index, [k \in 1..Len(ws) |-> Pass1(ws[k], r)])
        r2 == Scan(ws, start_index, [k \in 1..Len(ws) |-> Pass2(ws[k], r)])
        r3a == Scan(ws, start_index, [k \in 1..Len(ws) |-> Pass3a(ws[k], r)])
        r3b == Scan(ws, start_index, [k \in 1..Len(ws) |-> Pass3b(ws[k], r)])
    IN  IF ws = <<>> THEN [some |-> FALSE, idx |-> 0]
        ELSE IF r1.some THEN r1
        ELSE IF r2.some THEN r2
        ELSE IF ~is_gpu_task(r) /\ r3a.some THEN r3a
        ELSE IF ~is_gpu_task(r) /\ r3b.some THEN r3b
        ELSE [some |-> FALSE, idx |-> 0]

CursorAdvances(ws, start_index, found) ==
    ((IF found.some THEN found.idx ELSE start_index) + 1) % Len(ws)

CursorStays(ws, start_index, found) == start_index

\* *index = (current + 1) % worker_count on a match, else unchanged
CursorAfter(ws, start_index, found) ==
    IF found.some THEN (found.idx + 1) % Len(ws) ELSE start_index

(***************************************************************************)
(* Orchestrator::new and Orchestrator::start.                              *)
(***************************************************************************)
SpawnErr == [type |-> "SpawnErr"]

\* the (pool, pool_idx) pairs in the order start() spawns them
RECURSIVE PoolSlots(_, _, _)
PoolSlots(cfg, p, i) ==
    IF p > Len(cfg) THEN << >>
    ELSE IF i >= cfg[p].count THEN PoolSlots(cfg, p + 1, 0)
    ELSE << [pool |-> p, idx |-> i] >> \o PoolSlots(cfg, p, i + 1)

\* the handle start() gets for one slot: spawn, then wait_ready
StartHandle(cfg, slot, first) ==
    LET pool == cfg[slot.pool]
        h == SpawnedWorker(WorkerId(pool, slot.idx), pool.resources,
                           GpuAssign(pool, slot.idx), slot, slot.pool)
    IN  wait_ready(h, first)

\* the pool start() accumulates: the handles that spawned and became ready
RECURSIVE StartedWorkers(_, _, _, _)
StartedWorkers(cfg, slots, first, k) ==
    IF k > Len(slots) THEN << >>
    ELSE LET r == StartHandle(cfg, slots[k], first[k])
         IN  (IF first[k].type \notin {"SpawnErr", "AcceptTimeout", "Silent"} /\ r.ok
              THEN << r.handle >> ELSE << >>)
             \o StartedWorkers(cfg, slots, first, k + 1)

NoHandler == [h \in Handlers |-> 0]

\* db_writer_task as DbLogger::new spawns it: nothing received yet
WriterNew ==
    [pc |-> "new", entry |-> None, attempt |-> 0, slept |-> << >>,
     success |-> FALSE, written |-> 0]

\* the gateway with no request in hand: no call of the selection or of the
\* proxy, nothing queued, nothing written
\* the discovery task between two refreshes, nothing logged yet
DiscoveryIdle == [pc |-> "sleep"]

GatewayQuiet ==
    /\ discovery = DiscoveryIdle
    /\ selected = << >>
    /\ proxy = << >>
    /\ channel = << >>
    /\ writer = WriterNew
    /\ db = << >>

\* the gateway before its main has run: BackendPool::new, DbLogger::new
GatewayNew ==
    /\ backends = << >>
    /\ gw_phase = "new"
    /\ app_state = None
    /\ GatewayQuiet

\* no conversion under way
CodecIdle == codec = None

\* the ids whose child sent WorkerReady in start()
cameUp == DOMAIN announced

\* the state after Orchestrator::new
Boot ==
    /\ config \in Configs
    /\ phase = "new"
    /\ workers = << >>
    /\ next_worker_index = 0
    /\ lock = "none"
    /\ monitoring_task = "none"
    /\ rpc = "sleep"
    /\ workers_to_recycle = << >>
    /\ recycling = None
    /\ shutdown_pc = "none"
    /\ pc = [h \in Handlers |-> "idle"]
    /\ req = [h \in Handlers |-> ZeroAllocation]
    /\ sel = NoHandler
    /\ outcome = [h \in Handlers |-> "none"]
    /\ expirations = 0
    /\ selId = [h \in Handlers |-> << >>]
    /\ allocBefore = [h \in Handlers |-> ZeroAllocation]
    /\ arrivedFull = [h \in Handlers |-> FALSE]
    /\ lastRemoved = None
    /\ deferred = {}
    /\ sampled = {}
    /\ collected = {}
    /\ heartbeats = 0
    /\ sockets = {}
    /\ orphans = {}
    /\ announced = << >>
    /\ picks = << >>

Init == Boot /\ host = FALSE /\ GatewayNew /\ CodecIdle

\* the same program with the socket files and child processes followed
InitHost == Boot /\ host = TRUE /\ GatewayNew /\ CodecIdle

\* the socket files after unlinking / binding the paths of ids, and the
\* children left behind after the handles of ids were dropped unwaited
NeverUnlinked(ids) == sockets
Unlinked(ids) == IF host THEN sockets \ ids ELSE sockets
Bound(ids) == IF host THEN sockets \cup ids ELSE sockets
Orphaned(ids) == IF host THEN orphans \cup ids ELSE orphans

\* the ways a spawn can end without a usable handle, and a child that
\* connects and then stays silent
AcceptTimeout == [type |-> "AcceptTimeout"]
Silent == [type |-> "Silent"]

\* the slots start() gets through: all of them, or up to and including the
\* first whose child connects and never sends anything (wait_ready blocks)
Reached(slots, first) ==
    LET silent == {k \in 1..Len(slots) : first[k] = Silent}
    IN  IF silent = {} THEN Len(slots) ELSE CHOOSE k \in silent : \A j \in silent : k <= j

SlotId(cfg, slot) == WorkerId(cfg[slot.pool], slot.idx)

\* socket files after the spawns of slots 1..n: bound and not unlinked when
\* cmd.spawn() failed or the accept timed out (the listener is dropped,
\* nothing unlinks) and while a handle lives; a handle dropped after a failed
\* wait_ready unlinks
SocketsAfterStart(cfg, slots, first, n) ==
    {SlotId(cfg, slots[k]) : k \in {j \in 1..n :
         first[j].type \in {"SpawnErr", "AcceptTimeout", "WorkerReady", "Silent"}}}

\* children start() left without a handle: spawned and never accepted, or
\* dropped after a failed wait_ready
OrphansAfterStart(cfg, slots, first, n) ==
    {SlotId(cfg, slots[k]) : k \in {j \in 1..n :
         first[j].type \in {"AcceptTimeout", "Heartbeat"}}}

StartNeverFails(started) == FALSE

\* if workers.is_empty() { return Err(..) }
StartFails(started) == started = << >>

\* Orchestrator::start: spawn every slot, keep the ready ones, fail when none
\* came up, else start the monitoring task.  A child's first message is
\* WorkerReady echoing the capabilities it was started with, a Heartbeat, or
\* one of others.
StartWith(others) ==
    /\ phase = "new"
    /\ LET slots == PoolSlots(config, 1, 0)
       IN  \E first \in [1..Len(slots) ->
                  {SpawnErr, AcceptTimeout, Silent, Heartbeat, WorkerReady(ZeroAllocation)}
                      \cup others] :
             LET firstMsg == [k \in 1..Len(slots) |->
                                IF first[k] = WorkerReady(ZeroAllocation)
                                THEN WorkerReady(config[slots[k].pool].resources)
                                ELSE first[k]]
                 n == Reached(slots, first)
                 blocked == first[n] = Silent
                 started == StartedWorkers(config, SubSeq(slots, 1, n), firstMsg, 1)
                 ready == {j \in 1..n : first[j].type = "WorkerReady"}
             IN  /\ workers' = started
                 /\ sockets' = Bound(SocketsAfterStart(config, slots, first, n))
                 /\ orphans' = Orphaned(OrphansAfterStart(config, slots, first, n))
                 /\ announced' = [id \in {SlotId(config, slots[k]) : k \in ready} |->
                                    firstMsg[CHOOSE k \in ready :
                                               SlotId(config, slots[k]) = id].capabilities]
                 /\ phase' = IF blocked THEN "waiting_ready"
                             ELSE IF StartFails(started) THEN "failed" ELSE "running"
                 /\ monitoring_task' = IF blocked \/ StartFails(started)
                                       THEN "none" ELSE "running"
    /\ UNCHANGED <<gatewayVars, codecVars>>
    /\ UNCHANGED <<config, host, picks, heartbeats, next_worker_index, lock, shutdown_pc, expirations, deferred>>
    /\ UNCHANGED handlerVars
    /\ UNCHANGED recyclerVars

Start == StartWith({})

\* first messages of children that do not echo: a WorkerReady with other
\* capabilities than the pool's, a TaskResult
ReportedFirst == {WorkerReady(Res(1, 0, 2)), TaskResult("h1", TRUE)}

StartReporting == StartWith(ReportedFirst)

(***************************************************************************)
(* Request handlers: execute_task_no_body / execute_task_with_body.        *)
(***************************************************************************)
\* the value of lock while handler h owns workers_guard (from
\* workers.write().await to the end of the handler)
HandlerGuardDropped(h) == "none"
HandlerGuard(h) == h

\* an HTTP request for a route with resources r reaches handler h
Arrive(h, r) ==
    /\ phase = "running"
    /\ pc[h] = "idle"
    /\ pc' = [pc EXCEPT ![h] = "find"]
    /\ req' = [req EXCEPT ![h] = r]
    /\ arrivedFull' = [arrivedFull EXCEPT ![h] =
          /\ \A i \in 1..Len(workers) : ~has_capacity(workers[i], r)
          /\ \E i \in 1..Len(workers) : workers[i].allocation # ZeroAllocation]
    /\ UNCHANGED <<gatewayVars, codecVars>>
    /\ UNCHANGED <<config, host, picks, heartbeats, announced, phase, workers, next_worker_index, lock, monitoring_task,
                   shutdown_pc, expirations, sel, outcome, selId, allocBefore, deferred>>
    /\ UNCHANGED recyclerVars
    /\ UNCHANGED resourceVars

\* the selection counts after index i was returned once more
Picked(i) == IF picks = << >> THEN picks ELSE [picks EXCEPT ![i + 1] = @ + 1]

\* find_worker_with_resources under the read lock; None => InsufficientResources
Find(h) ==
    /\ pc[h] = "find"
    /\ lock = "none"
    /\ LET found == find_worker_with_resources(workers, next_worker_index, req[h])
       IN  /\ next_worker_index' = CursorAfter(workers, next_worker_index, found)
           /\ picks' = IF found.some THEN Picked(found.idx) ELSE picks
           /\ IF found.some
              THEN /\ pc' = [pc EXCEPT ![h] = "acquire"]
                   /\ sel' = [sel EXCEPT ![h] = found.idx]
                   /\ selId' = [selId EXCEPT ![h] = At(workers, found.idx).id]
                   /\ UNCHANGED <<outcome, req>>
              ELSE /\ pc' = [pc EXCEPT ![h] = "done"]
                   /\ outcome' = [outcome EXCEPT ![h] = "InsufficientResources"]
                   /\ req' = [req EXCEPT ![h] = ZeroAllocation]
                   /\ UNCHANGED <<sel, selId>>
    /\ arrivedFull' = [arrivedFull EXCEPT ![h] = FALSE]
    /\ UNCHANGED <<gatewayVars, codecVars>>
    /\ UNCHANGED <<config, host, heartbeats, announced, phase, workers, lock, monitoring_task, shutdown_pc,
                   expirations, allocBefore, deferred>>
    /\ UNCHANGED recyclerVars
    /\ UNCHANGED resourceVars

\* the handler's locals once it has its result: only the outcome is left
Finished(h, o) ==
    /\ pc' = [pc EXCEPT ![h] = "done"]
    /\ outcome' = [outcome EXCEPT ![h] = o]
    /\ req' = [req EXCEPT ![h] = ZeroAllocation]
    /\ sel' = [sel EXCEPT ![h] = 0]
    /\ selId' = [selId EXCEPT ![h] = << >>]
    /\ allocBefore' = [allocBefore EXCEPT ![h] = ZeroAllocation]

\* workers.write().await; workers_guard[worker_idx]; allocate; send; Busy.
\* An index past the end panics; a failed send deallocates and returns.
Dispatch(h) ==
    /\ pc[h] = "acquire"
    /\ lock = "none"
    /\ IF sel[h] >= Len(workers)
       THEN /\ Finished(h, "Panic")
            /\ UNCHANGED <<workers, lock, deferred>>
       ELSE LET w == At(workers, sel[h])
                allocated == [w EXCEPT !.allocation = allocate(w.allocation, req[h])]
            IN  \/ /\ workers' = SetAt(workers, sel[h],
                         [allocated EXCEPT
                            !.state = "Busy",
                            !.inbox = Append(@, [task_id |-> h, resources |-> req[h]])])
                   /\ lock' = HandlerGuard(h)
                   /\ pc' = [pc EXCEPT ![h] = "recv"]
                   /\ allocBefore' = [allocBefore EXCEPT ![h] = w.allocation]
                   /\ deferred' = IF should_recycle(w) THEN deferred \cup {w.id} ELSE deferred
                   /\ UNCHANGED <<outcome, req, sel, selId>>
                \/ /\ workers' = SetAt(workers, sel[h],
                         [allocated EXCEPT
                            !.allocation = deallocate(allocated.allocation, req[h])])
                   /\ Finished(h, "WorkerCommunicationError")
                   /\ UNCHANGED <<lock, deferred>>
    /\ UNCHANGED <<gatewayVars, codecVars>>
    /\ UNCHANGED <<config, host, picks, heartbeats, announced, phase, next_worker_index, monitoring_task, shutdown_pc,
                   expirations, arrivedFull>>
    /\ UNCHANGED recyclerVars
    /\ UNCHANGED resourceVars

ReleasedKeepsAllocation(w, r) == [w EXCEPT !.state = "Idle"]

ReleasedKeepsState(w, r) == [w EXCEPT !.allocation = deallocate(w.allocation, r)]

\* the worker record after the handler's deallocate and state reset
Released(w, r) == [w EXCEPT !.allocation = deallocate(w.allocation, r), !.state = "Idle"]

\* recv: the next frame on the socket decodes to a message, or fails to
\* decode, or the read fails because the child closed its end; deallocate,
\* Idle, then TaskResult => response, anything else => UnexpectedResponse
Recv(h) ==
    /\ pc[h] = "recv"
    /\ lock' = IF lock = HandlerGuard(h) THEN "none" ELSE lock
    /\ IF sel[h] >= Len(workers)
       THEN /\ Finished(h, "Panic")
            /\ UNCHANGED workers
       ELSE LET w == At(workers, sel[h])
            IN  \/ /\ w.out # << >>
                   /\ workers' = SetAt(workers, sel[h], [Released(w, req[h]) EXCEPT !.out = Tail(@)])
                   /\ \/ Finished(h, IF Head(w.out).type = "TaskResult" THEN "TaskResult"
                                     ELSE "UnexpectedResponse")
                      \/ Finished(h, "WorkerCommunicationError")
                \/ /\ workers' = SetAt(workers, sel[h],
                         [Released(w, req[h]) EXCEPT !.inbox = << >>, !.out = << >>])
                   /\ Finished(h, "WorkerCommunicationError")
    /\ UNCHANGED <<gatewayVars, codecVars>>
    /\ UNCHANGED <<config, host, picks, heartbeats, announced, phase, next_worker_index, monitoring_task, shutdown_pc,
                   expirations, arrivedFull, deferred>>
    /\ UNCHANGED recyclerVars
    /\ UNCHANGED resourceVars

\* the handler returns its response
Return(h) ==
    /\ pc[h] = "done"
    /\ pc' = [pc EXCEPT ![h] = "idle"]
    /\ outcome' = [outcome EXCEPT ![h] = "none"]
    /\ UNCHANGED <<gatewayVars, codecVars>>
    /\ UNCHANGED <<config, host, picks, heartbeats, announced, phase, workers, next_worker_index, lock, monitoring_task,
                   shutdown_pc, expirations, req, sel, selId, allocBefore, arrivedFull,
                   deferred>>
    /\ UNCHANGED recyclerVars
    /\ UNCHANGED resourceVars

(***************************************************************************)
(* Environment: the worker processes and the passing of time.              *)
(***************************************************************************)
\* the child at index i answers the oldest TaskAssignment it has received
WorkerReply(i) ==
    /\ i < Len(workers)
    /\ At(workers, i).inbox # << >>
    /\ \E success \in BOOLEAN :
         workers' = SetAt(workers, i,
             [At(workers, i) EXCEPT
                !.inbox = Tail(@),
                !.out = Append(@, TaskResult(Head(At(workers, i).inbox).task_id, success))])
    /\ UNCHANGED <<gatewayVars, codecVars>>
    /\ UNCHANGED <<config, host, picks, heartbeats, announced, phase, next_worker_index, lock, monitoring_task, shutdown_pc,
                   expirations, deferred>>
    /\ UNCHANGED handlerVars
    /\ UNCHANGED recyclerVars
    /\ UNCHANGED resourceVars

\* the child at index i sends a Heartbeat (either direction, at any time)
WorkerHeartbeat(i) ==
    /\ i < Len(workers)
    /\ heartbeats < MaxHeartbeats
    /\ heartbeats' = heartbeats + 1
    /\ workers' = SetAt(workers, i, [At(workers, i) EXCEPT !.out = Append(@, Heartbeat)])
    /\ UNCHANGED <<gatewayVars, codecVars>>
    /\ UNCHANGED <<config, host, picks, announced, phase, next_worker_index, lock, monitoring_task, shutdown_pc,
                   expirations, deferred>>
    /\ UNCHANGED handlerVars
    /\ UNCHANGED recyclerVars
    /\ UNCHANGED resourceVars

\* spawn_time.elapsed() of the worker at index i reaches max_lifetime_secs
Expire(i) ==
    /\ i < Len(workers)
    /\ ~At(workers, i).expired
    /\ expirations < MaxExpirations
    /\ expirations' = expirations + 1
    /\ workers' = SetAt(workers, i, [At(workers, i) EXCEPT !.expired = TRUE])
    /\ deferred' = IF At(workers, i).state = "Busy"
                   THEN deferred \cup {At(workers, i).id} ELSE deferred
    /\ UNCHANGED <<gatewayVars, codecVars>>
    /\ UNCHANGED <<config, host, picks, heartbeats, announced, phase, next_worker_index, lock, monitoring_task, shutdown_pc>>
    /\ UNCHANGED handlerVars
    /\ UNCHANGED recyclerVars
    /\ UNCHANGED resourceVars

(***************************************************************************)
(* The monitoring task (Orchestrator::start_monitoring) and                *)
(* Orchestrator::recycle_worker_at_index.                                  *)
(***************************************************************************)
\* the value of lock while the monitoring task owns workers_guard (from
\* workers.write().await to the end of the loop body)
RecyclerGuardDropped == "none"
RecyclerGuard == "recycler"

\* what reading /proc/<pid>/status gives for one worker
MemoryReads == {[ok |-> FALSE, kb |-> 0]} \cup {[ok |-> TRUE, kb |-> k] : k \in VmRSSkB}

\* the record after the tick's memory update (unchanged when the read failed)
Sampled(w, read) ==
    IF read.ok THEN update_memory(w, get_process_memory_mb(read.kb)) ELSE w

CollectableWhenBusy(w, read) == read.ok /\ should_recycle(w) /\ w.state = "Busy"

\* the tick pushes idx: memory was read, should_recycle holds, worker is Idle
Collectable(w, read) == read.ok /\ should_recycle(w) /\ w.state = "Idle"

\* workers_to_recycle after the scan of the (updated) pool, ascending
RECURSIVE Collected(_, _, _)
Collected(ws, reads, idx) ==
    IF idx >= Len(ws) THEN << >>
    ELSE (IF Collectable(At(ws, idx), reads[idx + 1]) THEN << idx >> ELSE << >>)
         \o Collected(ws, reads, idx + 1)

NextToRecycleForward(idxs) == idxs[1]

\* for &idx in workers_to_recycle.iter().rev(): the index processed next
NextToRecycle(idxs) == idxs[Len(idxs)]

\* the indices left once idx has been processed
RestToRecycle(idxs, idx) == SelectSeq(idxs, LAMBDA x : x # idx)

\* worker_pools.iter().find(|p| p.name == pool_name), pool_name the text of
\* worker_id before its first '-': the position of the pool, 0 when none
FindPool(cfg, worker_id) ==
    LET pool_name == << Head(worker_id) >>
        hits == {p \in 1..Len(cfg) : cfg[p].name = pool_name}
    IN  IF hits = {} THEN 0 ELSE CHOOSE p \in hits : \A q \in hits : p <= q

\* worker_id.split('-').last().and_then(|s| s.parse().ok()).unwrap_or(0)
PoolIdxOf(worker_id) == ParseUsize(worker_id[Len(worker_id)]).val

\* a tick: take the write lock, sample every worker, collect the indices
TickBegin ==
    /\ \/ monitoring_task = "running" /\ rpc = "sleep"
       \/ rpc = "woken"
    /\ lock = "none"
    /\ \E reads \in [1..Len(workers) -> MemoryReads] :
         LET updated == [k \in 1..Len(workers) |-> Sampled(workers[k], reads[k])]
         IN  /\ workers' = updated
             /\ workers_to_recycle' = Collected(updated, reads, 0)
             /\ collected' = {<<idx, At(updated, idx).id>> :
                                  idx \in {i \in 0..(Len(workers) - 1) :
                                              Collectable(updated[i + 1], reads[i + 1])}}
             /\ sampled' = {workers[k].id : k \in {j \in 1..Len(workers) :
                                  reads[j].ok /\ workers[j].state = "Idle"}}
    /\ lock' = RecyclerGuard
    /\ rpc' = "recycling"
    /\ UNCHANGED <<gatewayVars, codecVars>>
    /\ UNCHANGED <<config, host, picks, heartbeats, announced, phase, next_worker_index, monitoring_task, recycling,
                   shutdown_pc, expirations, lastRemoved, deferred>>
    /\ UNCHANGED handlerVars
    /\ UNCHANGED resourceVars

\* recycle_worker_at_index up to the spawn: bounds check, remove, pool
\* lookup, shutdown of the old handle, pool index and GPU devices.  A failed
\* pool lookup returns at once and drops the old handle (its Drop unlinks
\* the socket, nothing waits for the child); WorkerHandle::shutdown either
\* sends Shutdown, waits for the child and unlinks, or fails at the send and
\* leaves child and socket as they are.
RecycleRemove ==
    /\ rpc = "recycling"
    /\ recycling = None
    /\ workers_to_recycle # << >>
    /\ LET idx == NextToRecycle(workers_to_recycle)
       IN  /\ workers_to_recycle' = RestToRecycle(workers_to_recycle, idx)
           /\ IF idx >= Len(workers)
              THEN UNCHANGED <<workers, recycling, lastRemoved, deferred, sockets, orphans>>
              ELSE LET old_worker == At(workers, idx)
                       worker_id == old_worker.id
                       p == FindPool(config, worker_id)
                   IN  /\ workers' = VecRemove(workers, idx)
                       /\ lastRemoved' =
                            [id |-> worker_id, state |-> old_worker.state,
                             deferred |-> worker_id \in deferred,
                             awaited |-> Cardinality({h \in Handlers :
                                            pc[h] = "recv" /\ sel[h] = idx})]
                       /\ deferred' = deferred \ {worker_id}
                       /\ IF p = 0
                          THEN /\ recycling' = None
                               /\ sockets' = Unlinked({worker_id})
                               /\ orphans' = Orphaned({worker_id})
                          ELSE /\ recycling' =
                                  [idx |-> idx, worker_id |-> worker_id, pool |-> p,
                                   gpu_devices |-> GpuAssign(config[p], PoolIdxOf(worker_id)),
                                   origin |-> old_worker.origin]
                               /\ \/ /\ sockets' = Unlinked({worker_id})
                                     /\ orphans' = orphans
                                  \/ /\ sockets' = sockets
                                     /\ orphans' = Orphaned({worker_id})
    /\ UNCHANGED <<gatewayVars, codecVars>>
    /\ UNCHANGED <<config, host, picks, heartbeats, announced, phase, next_worker_index, lock, monitoring_task, rpc,
                   shutdown_pc, expirations, sampled, collected>>
    /\ UNCHANGED handlerVars

\* recycle_worker_at_index from the spawn on: spawn (which unlinks a socket
\* file left at the path and binds it), wait_ready, insert at idx; a spawn
\* or readiness failure leaves the slot absent.  On every return the old
\* handle goes out of scope and its Drop unlinks the socket path, which is
\* also the path of the replacement.  A replacement that connects and stays
\* silent leaves the tick inside wait_ready.
RecycleSpawn ==
    /\ rpc = "recycling"
    /\ recycling # None
    /\ LET pool == config[recycling.pool]
           id == recycling.worker_id
           new_worker == SpawnedWorker(id, pool.resources,
                                       recycling.gpu_devices, recycling.origin, recycling.pool)
       IN  \E first \in {SpawnErr, AcceptTimeout, Silent} \cup FirstMessages(pool.resources) :
             IF first = Silent
             THEN /\ rpc' = "waiting_ready"
                  /\ sockets' = Bound({id})
                  /\ UNCHANGED <<workers, recycling, orphans>>
             ELSE LET ready == wait_ready(new_worker, first)
                      connected == first.type \notin {"SpawnErr", "AcceptTimeout"}
                  IN  /\ workers' = IF connected /\ ready.ok /\ recycling.idx <= Len(workers)
                                    THEN VecInsert(workers, recycling.idx, ready.handle)
                                    ELSE workers
                      /\ sockets' = Unlinked({id})
                      /\ orphans' = IF first = AcceptTimeout \/ (connected /\ ~ready.ok)
                                    THEN Orphaned({id}) ELSE orphans
                      /\ recycling' = None
                      /\ rpc' = rpc
    /\ UNCHANGED <<gatewayVars, codecVars>>
    /\ UNCHANGED <<config, host, picks, heartbeats, announced, phase, next_worker_index, lock, monitoring_task,
                   workers_to_recycle, shutdown_pc, expirations, lastRemoved, deferred,
                   sampled, collected>>
    /\ UNCHANGED handlerVars

\* the end of the loop body: workers_guard is dropped, back to
\* interval.tick().await, where an aborted task ends
TickEnd ==
    /\ rpc = "recycling"
    /\ recycling = None
    /\ workers_to_recycle = << >>
    /\ rpc' = IF monitoring_task = "aborted" THEN "cancelled" ELSE "sleep"
    /\ lock' = IF lock = RecyclerGuard THEN "none" ELSE lock
    /\ sampled' = {}
    /\ collected' = {}
    /\ lastRemoved' = None
    /\ UNCHANGED <<gatewayVars, codecVars>>
    /\ UNCHANGED <<config, host, picks, heartbeats, announced, phase, workers, next_worker_index, monitoring_task,
                   workers_to_recycle, recycling, shutdown_pc, expirations, deferred>>
    /\ UNCHANGED handlerVars
    /\ UNCHANGED resourceVars

(***************************************************************************)
(* Orchestrator::shutdown.                                                 *)
(***************************************************************************)
TaskKept(t) == t

\* if let Some(handle) = monitoring_task.take() { handle.abort(); }
TaskAborted(t) == IF t = "running" THEN "aborted" ELSE t

\* monitoring_task.take() and handle.abort().  abort() takes effect when the
\* task next returns Pending: a task that is being polled past
\* interval.tick() when abort() is called ("woken") still goes on to
\* workers.write().await.
ShutdownAbort ==
    /\ phase = "running"
    /\ shutdown_pc = "none"
    /\ shutdown_pc' = "aborted"
    /\ monitoring_task' = TaskAborted(monitoring_task)
    /\ \/ rpc' = rpc
       \/ rpc = "sleep" /\ monitoring_task = "running" /\ rpc' = "woken"
    /\ UNCHANGED <<gatewayVars, codecVars>>
    /\ UNCHANGED <<config, host, picks, heartbeats, announced, phase, workers, next_worker_index, lock, expirations, deferred>>
    /\ UNCHANGED <<workers_to_recycle, recycling, lastRemoved, sampled, collected>>
    /\ UNCHANGED handlerVars
    /\ UNCHANGED resourceVars

\* the aborted monitoring task is dropped at an await inside a tick: its
\* guard and the handles it holds go with it.  Inside a replacement the old
\* handle is dropped (its Drop unlinks the socket path) and the replacement
\* being spawned or awaited is left without a handle.
RecyclerCancelled ==
    /\ monitoring_task = "aborted"
    /\ rpc \in {"woken", "recycling", "waiting_ready"}
    /\ rpc' = "cancelled"
    /\ lock' = IF lock = RecyclerGuard THEN "none" ELSE lock
    /\ workers_to_recycle' = << >>
    /\ recycling' = None
    /\ sampled' = {}
    /\ collected' = {}
    /\ lastRemoved' = None
    /\ sockets' = IF recycling = None THEN sockets ELSE Unlinked({recycling.worker_id})
    /\ orphans' = IF rpc = "waiting_ready" THEN Orphaned({recycling.worker_id}) ELSE orphans
    /\ UNCHANGED <<gatewayVars, codecVars>>
    /\ UNCHANGED <<config, host, picks, heartbeats, announced, phase, workers, next_worker_index, monitoring_task,
                   shutdown_pc, expirations, deferred>>
    /\ UNCHANGED handlerVars

ShutdownAcquiresAnyway == TRUE

\* workers.write().await of shutdown is granted
ShutdownMayAcquire == lock = "none"

\* workers.write().await; shutdown of every handle; workers.clear().  A
\* handle whose shutdown fails at the send is dropped by clear() with its
\* child not waited for; every socket is unlinked by shutdown or by Drop.
ShutdownWorkers ==
    /\ shutdown_pc = "aborted"
    /\ ShutdownMayAcquire
    /\ workers' = << >>
    /\ shutdown_pc' = "done"
    /\ deferred' = {}
    /\ LET ids == {workers[k].id : k \in 1..Len(workers)}
       IN  /\ sockets' = Unlinked(ids)
           /\ \E failed \in SUBSET ids : orphans' = Orphaned(failed)
    /\ UNCHANGED <<gatewayVars, codecVars>>
    /\ UNCHANGED <<config, host, picks, heartbeats, announced, phase, next_worker_index, lock, monitoring_task, expirations>>
    /\ UNCHANGED handlerVars
    /\ UNCHANGED recyclerVars

(***************************************************************************)
(* The program.                                                            *)
(***************************************************************************)
MaxWorkers == 2

Next ==
    \/ Start
    \/ \E h \in Handlers, r \in Requirements : Arrive(h, r)
    \/ \E h \in Handlers : Find(h)
    \/ \E h \in Handlers : Dispatch(h)
    \/ \E h \in Handlers : Recv(h)
    \/ \E h \in Handlers : Return(h)
    \/ \E i \in 0..(MaxWorkers - 1) : WorkerReply(i)
    \/ \E i \in 0..(MaxWorkers - 1) : Expire(i)
    \/ TickBegin
    \/ RecycleRemove
    \/ RecycleSpawn
    \/ TickEnd
    \/ ShutdownAbort
    \/ RecyclerCancelled
    \/ ShutdownWorkers

Spec == Init /\ [][Next]_vars

(***************************************************************************)
(* The selector on its own: find_worker_with_resources applied to pools in *)
(* any lifecycle state, allocation and cursor position.                    *)
(***************************************************************************)
MaxSelPool == 2

SelStates == {"Starting", "Idle", "Busy", "Recycling"}
SelCapabilities == {Res(2, 0, 4), Res(2, 1, 4)}
SelAllocations == {ZeroAllocation, Res(1, 1, 1), Res(2, 0, 4)}

SelWorker(k, st, caps, alloc) ==
    [SpawnedWorker(<<"w", IdxStr[k]>>, caps, << >>, [pool |-> 1, idx |-> k - 1], 1)
        EXCEPT !.state = st, !.allocation = alloc]

SelPools ==
    UNION {
      {[k \in 1..n |-> SelWorker(k, st[k], caps[k], alloc[k])] :
          st \in [1..n -> SelStates],
          caps \in [1..n -> SelCapabilities],
          alloc \in {a \in [1..n -> SelAllocations] :
                        \A k \in 1..n : a[k].num_gpus <= 1} }
      : n \in 1..MaxSelPool }

InitSel ==
    /\ config = NodePools
    /\ phase = "running"
    /\ workers \in {ws \in SelPools :
                      \A k \in 1..Len(ws) :
                         ws[k].allocation.num_gpus <= ws[k].capabilities.num_gpus}
    /\ next_worker_index \in 0..MaxSelPool
    /\ lock = "none"
    /\ monitoring_task = "running"
    /\ rpc = "sleep"
    /\ workers_to_recycle = << >>
    /\ recycling = None
    /\ shutdown_pc = "none"
    /\ pc = [h \in Handlers |-> "idle"]
    /\ req = [h \in Handlers |-> ZeroAllocation]
    /\ sel = NoHandler
    /\ outcome = [h \in Handlers |-> "none"]
    /\ expirations = 0
    /\ selId = [h \in Handlers |-> << >>]
    /\ allocBefore = [h \in Handlers |-> ZeroAllocation]
    /\ arrivedFull = [h \in Handlers |-> FALSE]
    /\ lastRemoved = None
    /\ deferred = {}
    /\ sampled = {}
    /\ collected = {}
    /\ heartbeats = 0
    /\ sockets = {}
    /\ orphans = {}
    /\ announced = << >>
    /\ picks = << >>
    /\ GatewayNew
    /\ CodecIdle
    /\ host = FALSE

NextSel ==
    \/ \E r \in Requirements : Arrive("h1", r)
    \/ Find("h1")
    \/ Return("h1")

SpecSel == InitSel /\ [][NextSel]_vars

(***************************************************************************)
(* Request handling against workers that also send Heartbeat messages.     *)
(***************************************************************************)
NextHb ==
    \/ Start
    \/ \E h \in Handlers, r \in Requirements : Arrive(h, r)
    \/ \E h \in Handlers : Find(h)
    \/ \E h \in Handlers : Dispatch(h)
    \/ \E h \in Handlers : Recv(h)
    \/ \E h \in Handlers : Return(h)
    \/ \E i \in 0..(MaxWorkers - 1) : WorkerReply(i)
    \/ \E i \in 0..(MaxWorkers - 1) : WorkerHeartbeat(i)

SpecHb == Init /\ [][NextHb]_vars

(***************************************************************************)
(* The life of the workers' processes and socket files: start, recycling   *)
(* and shutdown, with one request handler.                                  *)
(***************************************************************************)
NextHost ==
    \/ Start
    \/ \E r \in Requirements : Arrive("h1", r)
    \/ Find("h1") \/ Dispatch("h1") \/ Recv("h1") \/ Return("h1")
    \/ \E i \in 0..(MaxWorkers - 1) : WorkerReply(i)
    \/ \E i \in 0..(MaxWorkers - 1) : Expire(i)
    \/ TickBegin \/ RecycleRemove \/ RecycleSpawn \/ TickEnd
    \/ ShutdownAbort \/ RecyclerCancelled \/ ShutdownWorkers

SpecHost == InitHost /\ [][NextHost]_vars

(***************************************************************************)
(* Readiness: a start whose children announce what they like, followed by  *)
(* requests against the pool it leaves.                                     *)
(***************************************************************************)
NextReady ==
    \/ StartReporting
    \/ \E h \in Handlers, r \in Requirements : Arrive(h, r)
    \/ \E h \in Handlers : Find(h)
    \/ \E h \in Handlers : Dispatch(h)
    \/ \E h \in Handlers : Recv(h)
    \/ \E h \in Handlers : Return(h)
    \/ \E i \in 0..(MaxWorkers - 1) : WorkerReply(i)

SpecReady == Init /\ [][NextReady]_vars

(***************************************************************************)
(* Round robin: requests served one after the other by a pool of Idle      *)
(* workers of one profile, from any cursor position.                       *)
(***************************************************************************)
RRProfiles == {Res(2, 1, 4), Res(2, 0, 4)}

RRPools ==
    UNION { { [k \in 1..n |->
                 [SpawnedWorker(<<"w", IdxStr[k]>>, caps, << >>,
                                [pool |-> 1, idx |-> k - 1], 1)
                    EXCEPT !.state = "Idle"]] : caps \in RRProfiles }
            : n \in 1..MaxSelPool }

RECURSIVE SumSeq(_)
SumSeq(s) == IF s = << >> THEN 0 ELSE Head(s) + SumSeq(Tail(s))

InitRR ==
    /\ config = NodePools
    /\ phase = "running"
    /\ workers \in RRPools
    /\ next_worker_index \in 0..MaxSelPool
    /\ picks = [k \in 1..Len(workers) |-> 0]
    /\ lock = "none"
    /\ monitoring_task = "running"
    /\ rpc = "sleep"
    /\ workers_to_recycle = << >>
    /\ recycling = None
    /\ shutdown_pc = "none"
    /\ pc = [h \in Handlers |-> "idle"]
    /\ req = [h \in Handlers |-> ZeroAllocation]
    /\ sel = NoHandler
    /\ outcome = [h \in Handlers |-> "none"]
    /\ expirations = 0
    /\ selId = [h \in Handlers |-> << >>]
    /\ allocBefore = [h \in Handlers |-> ZeroAllocation]
    /\ arrivedFull = [h \in Handlers |-> FALSE]
    /\ lastRemoved = None
    /\ deferred = {}
    /\ sampled = {}
    /\ collected = {}
    /\ heartbeats = 0
    /\ sockets = {}
    /\ orphans = {}
    /\ announced = << >>
    /\ host = FALSE
    /\ GatewayNew
    /\ CodecIdle

\* one handler: each request completes before the next is selected
NextRR ==
    \/ SumSeq(picks) < MaxRequests /\ \E r \in Requirements : Arrive("h1", r)
    \/ Find("h1")
    \/ Dispatch("h1")
    \/ \E i \in 0..(MaxSelPool - 1) : WorkerReply(i)
    \/ Recv("h1")
    \/ Return("h1")

SpecRR == InitRR /\ [][NextRR]_vars

(***************************************************************************)
(* Gateway: BackendPool (static discovery, capacity polling, selection).   *)
(***************************************************************************)
MaxErrorCount == 3

\* STATIC_BACKENDS
StaticBackends == <<"b1", "b2", "b3">>

NewBackendHealthy(url) ==
    [url |-> url, available |-> ZeroAllocation, total |-> ZeroAllocation,
     healthy |-> TRUE, error_count |-> 0]

\* Backend::new
NewBackend(url) ==
    [url |-> url, available |-> ZeroAllocation, total |-> ZeroAllocation,
     healthy |-> FALSE, error_count |-> 0]

\* the bodies a backend's /capacity answers with
CapacityResponse(available, total) == [available |-> available, total |-> total]
CapacityResponses ==
    { CapacityResponse(Res(6, 2, 8), Res(8, 2, 16)),
      CapacityResponse(Res(4, 1, 8), Res(8, 2, 16)),
      CapacityResponse(Res(2, 0, 4), Res(4, 0, 8)),
      CapacityResponse(Res(1, 1, 2), Res(8, 2, 16)),
      CapacityResponse(Res(0, 0, 0), Res(0, 0, 0)) }

\* the resources the gateway asks a backend for
BackendRequests == {Res(1, 0, 1), Res(1, 1, 1), Res(4, 0, 8)}

\* BackendPool::start, DiscoveryMode::Static: one record per url, then the
\* monitoring task is started and main goes on to serve
GwStart ==
    /\ gw_phase = "new"
    /\ backends' = [k \in 1..Len(StaticBackends) |-> NewBackend(StaticBackends[k])]
    /\ gw_phase' = "serving"
    /\ UNCHANGED <<selected, proxy, channel, writer, db, app_state, discovery>>
    /\ UNCHANGED <<coreVars, codecVars>>

\* the Ok arm of the poll: the record takes the sample, healthy, no errors
PollSucceeded(b, capacity) ==
    [b EXCEPT !.available = capacity.available, !.total = capacity.total,
              !.healthy = TRUE, !.error_count = 0]

PollFailedAtOnce(b) == [b EXCEPT !.error_count = @ + 1, !.healthy = FALSE]

\* the Err arm of the poll: one more error, unhealthy from the third on
PollFailed(b) ==
    [b EXCEPT !.error_count = @ + 1,
              !.healthy = IF b.error_count + 1 >= 3 THEN FALSE ELSE @]

PollFailure == [failed |-> TRUE]

\* one round of the monitoring loop: under the write lock every backend is
\* polled in turn; fetch_capacity returns a sample or fails (request error,
\* non-2xx status, malformed JSON)
PollTick ==
    /\ gw_phase = "serving"
    /\ \E polls \in [1..Len(backends) -> CapacityResponses \cup {PollFailure}] :
         /\ \A k \in 1..Len(backends) :
               polls[k] = PollFailure => backends[k].error_count < MaxErrorCount
         /\ backends' = [k \in 1..Len(backends) |->
                           IF polls[k] = PollFailure THEN PollFailed(backends[k])
                           ELSE PollSucceeded(backends[k], polls[k])]
    /\ UNCHANGED <<gw_phase, selected, proxy, channel, writer, db, app_state, discovery>>
    /\ UNCHANGED <<coreVars, codecVars>>

backend_has_capacity_unhealthy(b, r) ==
    /\ b.available.num_cpus >= r.num_cpus
    /\ b.available.num_gpus >= r.num_gpus
    /\ b.available.memory_gb >= r.memory_gb

\* Backend::has_capacity
backend_has_capacity(b, r) ==
    /\ b.healthy
    /\ b.available.num_cpus >= r.num_cpus
    /\ b.available.num_gpus >= r.num_gpus
    /\ b.available.memory_gb >= r.memory_gb

\* a ratio num/den with den > 0, and the order of two ratios
Ratio(num, den) == [num |-> num, den |-> den]
RatioLess(u, v) == u.num * v.den < v.num * u.den
RatioMax(u, v) == IF RatioLess(u, v) THEN v ELSE u

utilization_cpus_only(b) ==
    IF b.total.num_cpus = 0 /\ b.total.num_gpus = 0 THEN Ratio(1, 1)
    ELSE IF b.total.num_cpus > 0
         THEN Ratio(b.total.num_cpus - b.available.num_cpus, b.total.num_cpus)
         ELSE Ratio(0, 1)

\* Backend::utilization
utilization(b) ==
    IF b.total.num_cpus = 0 /\ b.total.num_gpus = 0 THEN Ratio(1, 1)
    ELSE LET cpu_util == IF b.total.num_cpus > 0
                         THEN Ratio(b.total.num_cpus - b.available.num_cpus, b.total.num_cpus)
                         ELSE Ratio(0, 1)
             gpu_util == IF b.total.num_gpus > 0
                         THEN Ratio(b.total.num_gpus - b.available.num_gpus, b.total.num_gpus)
                         ELSE Ratio(0, 1)
         IN  RatioMax(cpu_util, gpu_util)

\* the candidates in pool order: filter(|b| b.has_capacity(..)).collect()
RECURSIVE Candidates(_, _, _)
Candidates(bs, r, k) ==
    IF k > Len(bs) THEN << >>
    ELSE (IF backend_has_capacity(bs[k], r) THEN << k >> ELSE << >>)
         \o Candidates(bs, r, k + 1)

\* x put into the sorted sequence s behind everything that is not greater
RECURSIVE InsertByUtilization(_, _, _)
InsertByUtilization(bs, s, x) ==
    IF s = << >> THEN << x >>
    ELSE IF RatioLess(utilization(bs[x]), utilization(bs[Head(s)]))
         THEN << x >> \o s
         ELSE << Head(s) >> \o InsertByUtilization(bs, Tail(s), x)

SortKeepsOrder(bs, c) == c

\* candidates.sort_by(utilization): a stable sort, least utilized first
RECURSIVE SortByUtilization(_, _)
SortByUtilization(bs, c) ==
    IF c = << >> THEN << >>
    ELSE InsertByUtilization(bs, SortByUtilization(bs, SubSeq(c, 1, Len(c) - 1)), c[Len(c)])

\* BackendPool::find_backend_with_resources: a clone of the chosen record
find_backend_with_resources(bs, r) ==
    LET candidates == Candidates(bs, r, 1)
    IN  IF candidates = << >> THEN [some |-> FALSE]
        ELSE LET sorted == SortByUtilization(bs, candidates)
             IN  [some |-> TRUE, idx |-> sorted[1], backend |-> bs[sorted[1]]]

\* a call of find_backend_with_resources under the read lock; the last call
\* is remembered
Select(r) ==
    /\ gw_phase = "serving"
    /\ selected' = << [req |-> r, result |-> find_backend_with_resources(backends, r)] >>
    /\ UNCHANGED <<backends, gw_phase, proxy, channel, writer, db, app_state, discovery>>
    /\ UNCHANGED <<coreVars, codecVars>>

\* the pool from its start on: health and capacity samples
NextHealth ==
    \/ GwStart
    \/ PollTick

SpecHealth == Init /\ [][NextHealth]_vars

\* the states of one backend the polls lead to: never polled with success,
\* or holding a sample and healthy, or holding a sample and unhealthy after
\* three failures
PolledBackends(url) ==
    {NewBackend(url)}
        \cup {PollSucceeded(NewBackend(url), c) : c \in CapacityResponses}
        \cup {PollFailed(PollFailed(PollFailed(PollSucceeded(NewBackend(url), c)))) :
                 c \in CapacityResponses}

\* the selection on its own, over every pool the polls lead to
InitSelect ==
    /\ Boot
    /\ host = FALSE
    /\ backends \in {bs \in [1..Len(StaticBackends) -> UNION {PolledBackends(StaticBackends[k]) :
                                                             k \in 1..Len(StaticBackends)}] :
                       \A k \in 1..Len(StaticBackends) : bs[k].url = StaticBackends[k]}
    /\ gw_phase = "serving"
    /\ app_state = None
    /\ GatewayQuiet
    /\ CodecIdle

NextSelect == \E r \in BackendRequests : Select(r)

SpecSelect == InitSelect /\ [][NextSelect]_vars

(***************************************************************************)
(* Gateway: the selection over pools with records that were added and not  *)
(* yet polled with success, for every request.                             *)
(***************************************************************************)
\* the states of a record from Backend::new to its first successful poll:
\* every poll so far has failed
UnpolledBackends(url) ==
    {NewBackend(url), PollFailed(NewBackend(url)), PollFailed(PollFailed(NewBackend(url))),
     PollFailed(PollFailed(PollFailed(NewBackend(url))))}

\* the requests, the one for nothing included
AnyBackendRequests == BackendRequests \cup {ZeroAllocation}

InitUnpolled ==
    /\ Boot
    /\ host = FALSE
    /\ backends \in {bs \in [1..Len(StaticBackends) ->
                                UNION {PolledBackends(StaticBackends[k])
                                           \cup UnpolledBackends(StaticBackends[k]) :
                                       k \in 1..Len(StaticBackends)}] :
                       \A k \in 1..Len(StaticBackends) : bs[k].url = StaticBackends[k]}
    /\ gw_phase = "serving"
    /\ app_state = None
    /\ GatewayQuiet
    /\ CodecIdle

NextUnpolled == \E r \in AnyBackendRequests : Select(r)

SpecUnpolled == InitUnpolled /\ [][NextUnpolled]_vars

(***************************************************************************)
(* Gateway: Backend::utilization on its own, over every capacity sample.   *)
(***************************************************************************)
MaxCapacity == 3

\* the samples a record can hold: of every dimension some total and an
\* available amount within it
CapacitySamples ==
    LET Figures == [num_cpus : 0..MaxCapacity, num_gpus : 0..MaxCapacity, memory_gb : 0..1]
    IN  {c \in [available : Figures, total : Figures] :
            /\ c.available.num_cpus <= c.total.num_cpus
            /\ c.available.num_gpus <= c.total.num_gpus
            /\ c.available.memory_gb <= c.total.memory_gb}

InitUtilization ==
    /\ Boot
    /\ host = FALSE
    /\ backends \in {<< PollSucceeded(NewBackend(StaticBackends[1]), c) >> : c \in CapacitySamples}
    /\ gw_phase = "serving"
    /\ app_state = None
    /\ GatewayQuiet
    /\ CodecIdle

\* a call of Backend::utilization on the record; the result is remembered
Utilization ==
    /\ selected = << >>
    /\ selected' = << [backend |-> backends[1], utilization |-> utilization(backends[1])] >>
    /\ UNCHANGED <<backends, gw_phase, proxy, channel, writer, db, app_state, discovery>>
    /\ UNCHANGED <<coreVars, codecVars>>

NextUtilization == Utilization

SpecUtilization == InitUtilization /\ [][NextUtilization]_vars

(***************************************************************************)
(* Gateway: BackendPool with DiscoveryMode::Kubernetes                     *)
(* (discover_kubernetes_backends, start_kubernetes_discovery).             *)
(***************************************************************************)
\* the pods of the namespace that carry the label, their addresses and the
\* port of DiscoveryMode::Kubernetes
PodNames == <<"task-0", "task-1">>
PodIps == {"10.0.0.1", "10.0.0.2"}
PodPort == "8080"

\* Pod: status, and in it pod_ip and phase, are Options
Pod(name, pod_ip, pod_phase) ==
    [name |-> name, status |-> Some([pod_ip |-> pod_ip, phase |-> pod_phase])]
PodWithoutStatus(name) == [name |-> name, status |-> None]
Pods(name) ==
    {PodWithoutStatus(name), Pod(name, None, Some("Running"))}
        \cup {Pod(name, Some(ip), pod_phase) :
                 ip \in PodIps, pod_phase \in {None, Some("Pending"), Some("Running")}}

\* pods.list(&lp).await: Ok(pod_list), the pods of some of the names in the
\* order of their names, or Err
ListOk(items) == [ok |-> TRUE, items |-> items]
ListErr == [ok |-> FALSE]
RECURSIVE PodLists(_)
PodLists(k) ==
    IF k > Len(PodNames) THEN {<< >>}
    ELSE PodLists(k + 1)
             \cup {<< pod >> \o l : pod \in Pods(PodNames[k]), l \in PodLists(k + 1)}
ListResults == {ListOk(items) : items \in PodLists(1)} \cup {ListErr}

\* format!("http://{}:{}", pod_ip, port)
Url(pod_ip, port) == [scheme |-> "http", ip |-> pod_ip, port |-> port]

\* if let Some(status), if let Some(pod_ip), if let Some(phase), phase == "Running"
IsRunningWithIp(pod) ==
    /\ pod.status # None
    /\ pod.status.some.pod_ip # None
    /\ pod.status.some.phase # None
    /\ pod.status.some.phase.some = "Running"

\* new_urls after the loop over pod_list.items
RECURSIVE new_urls(_)
new_urls(items) ==
    IF items = << >> THEN << >>
    ELSE (IF IsRunningWithIp(Head(items))
          THEN << Url(Head(items).status.some.pod_ip.some, PodPort) >> ELSE << >>)
         \o new_urls(Tail(items))

\* backends after the loop: a record is pushed for a url no record has yet
RECURSIVE PushNew(_, _)
PushNew(bs, urls) ==
    IF urls = << >> THEN bs
    ELSE PushNew(IF \E k \in 1..Len(bs) : bs[k].url = Head(urls)
                 THEN bs ELSE Append(bs, NewBackend(Head(urls))),
                 Tail(urls))

RetainAll(bs, urls) == bs

\* backends.retain(|backend| new_urls.contains(&backend.url))
Retain(bs, urls) ==
    LET exists(b) == \E k \in 1..Len(urls) : urls[k] = b.url
    IN  SelectSeq(bs, exists)

\* discover_kubernetes_backends once the pod list is there
discover_kubernetes_backends(bs, items) ==
    Retain(PushNew(bs, new_urls(items)), new_urls(items))

\* what the refresh logged: the records it pushed and removed, and how many
\* records with a successful poll it left in place
Refreshed(bs, items) ==
    LET urls == new_urls(items)
        has(k) == \E j \in 1..Len(urls) : urls[j] = bs[k].url
    IN  [pc |-> "sleep",
         added |-> Len(PushNew(bs, urls)) - Len(bs),
         removed |-> Cardinality({k \in 1..Len(bs) : ~has(k)}),
         kept_healthy |-> Cardinality({k \in 1..Len(bs) : has(k) /\ bs[k].healthy})]
RefreshFailed == [pc |-> "sleep", failed |-> TRUE]

\* Client::try_default and pods.list: the first half of
\* discover_kubernetes_backends, in start or after the 30 s sleep of the
\* refresh task; the pool lock is not held yet
DiscoveryList ==
    /\ gw_phase \in {"new", "serving"}
    /\ discovery.pc = "sleep"
    /\ \E result \in ListResults : discovery' = [pc |-> "listed", result |-> result]
    /\ UNCHANGED <<backends, gw_phase, selected, proxy, channel, writer, db, app_state>>
    /\ UNCHANGED <<coreVars, codecVars>>

\* the rest of discover_kubernetes_backends: an Err of the listing returns
\* through `?` (start fails, the refresh task logs it); otherwise under the
\* write lock new records are pushed and unlisted ones removed.  After the
\* first discovery start spawns the refresh and the monitoring task.
DiscoveryApply ==
    /\ discovery.pc = "listed"
    /\ IF discovery.result.ok
       THEN /\ backends' = discover_kubernetes_backends(backends, discovery.result.items)
            /\ discovery' = Refreshed(backends, discovery.result.items)
            /\ gw_phase' = "serving"
       ELSE /\ backends' = backends
            /\ discovery' = RefreshFailed
            /\ gw_phase' = IF gw_phase = "new" THEN "failed" ELSE gw_phase
    /\ UNCHANGED <<selected, proxy, channel, writer, db, app_state>>
    /\ UNCHANGED <<coreVars, codecVars>>

\* discovery, capacity polls and selection
NextDiscovery ==
    \/ DiscoveryList
    \/ DiscoveryApply
    \/ PollTick

SpecDiscovery == Init /\ [][NextDiscovery]_vars

(***************************************************************************)
(* Gateway: proxy_handler.                                                 *)
(***************************************************************************)
MaxProxied == 2

BAD_REQUEST == 400
BAD_GATEWAY == 502
INTERNAL_SERVER_ERROR == 500

\* the status codes a backend answers with
BackendStatuses == {200, 500}

\* the outcome of proxy_req.send() when no response came
SendError == [send_error |-> TRUE]

\* what proxy_req.send() returns: a response with its status, or an error
SendResults == {Some(status) : status \in BackendStatuses} \cup {SendError}

\* StatusCode::is_success
is_success(status) == status >= 200 /\ status < 300

\* LogEntry: the fields the handler fills in differently from call to call
LogEntry(id, status, status_code, error) ==
    [id |-> id, status |-> status, status_code |-> status_code, error |-> error]

\* DbLogger::log: the entry goes onto the unbounded channel
log(entry) == Append(channel, entry)

\* the urls the selection returns for the pool as it is, over the request
\* shapes
SelectableUrls(bs) ==
    {find_backend_with_resources(bs, r).backend.url :
        r \in {q \in BackendRequests : find_backend_with_resources(bs, q).some}}

\* the pools a request finds: as start left them before the first poll, or
\* after a round of polls that all gave the same sample
ProxyPools ==
    {[k \in 1..Len(StaticBackends) |-> NewBackend(StaticBackends[k])]}
        \cup {[k \in 1..Len(StaticBackends) |-> PollSucceeded(NewBackend(StaticBackends[k]), c)] :
                 c \in CapacityResponses}

\* a request reaches the router: task_id = Uuid::new_v4(), the body is still
\* to be read
ProxyArrive ==
    /\ gw_phase = "serving"
    /\ Len(proxy) < MaxProxied
    /\ proxy' = Append(proxy, [task_id |-> Len(proxy) + 1, pc |-> "read_body",
                               target_url |-> None, selectable |-> {},
                               status |-> None, response |-> None])
    /\ UNCHANGED <<backends, gw_phase, selected, channel, writer, db, app_state, discovery>>
    /\ UNCHANGED <<coreVars, codecVars>>

\* to_bytes(body) returns: on an error the handler returns BodyReadError; else
\* it logs `started`, builds target_url from state.backend_url and sends
ProxyReadBody(k, ok) ==
    /\ k \in DOMAIN proxy
    /\ proxy[k].pc = "read_body"
    /\ IF ok
       THEN /\ channel' = log(LogEntry(proxy[k].task_id, "started", None, None))
            /\ proxy' = [proxy EXCEPT ![k].pc = "send",
                                      ![k].target_url = Some(app_state.backend_url),
                                      ![k].selectable = SelectableUrls(backends)]
       ELSE /\ proxy' = [proxy EXCEPT ![k].pc = "done", ![k].response = Some(BAD_REQUEST)]
            /\ UNCHANGED channel
    /\ UNCHANGED <<backends, gw_phase, selected, writer, db, app_state, discovery>>
    /\ UNCHANGED <<coreVars, codecVars>>

\* proxy_req.send() returns: on an error the handler logs `failed` and returns
\* BackendError; else it goes on to read the response body
ProxySend(k, result) ==
    /\ k \in DOMAIN proxy
    /\ proxy[k].pc = "send"
    /\ IF result = SendError
       THEN /\ channel' = log(LogEntry(proxy[k].task_id, "failed", None, Some("Backend error")))
            /\ proxy' = [proxy EXCEPT ![k].pc = "done", ![k].status = SendError,
                                      ![k].response = Some(BAD_GATEWAY)]
       ELSE /\ proxy' = [proxy EXCEPT ![k].pc = "read_response", ![k].status = result]
            /\ UNCHANGED channel
    /\ UNCHANGED <<backends, gw_phase, selected, writer, db, app_state, discovery>>
    /\ UNCHANGED <<coreVars, codecVars>>

\* proxy_resp.bytes() returns: on an error the handler returns BodyReadError;
\* else it logs `completed` or `failed` by the status and builds the response
ProxyReadResponse(k, ok, built) ==
    /\ k \in DOMAIN proxy
    /\ proxy[k].pc = "read_response"
    /\ IF ok
       THEN LET status == proxy[k].status.some
            IN  /\ channel' = log(LogEntry(proxy[k].task_id,
                                           IF is_success(status) THEN "completed" ELSE "failed",
                                           Some(status),
                                           IF is_success(status) THEN None ELSE Some("HTTP")))
                /\ proxy' = [proxy EXCEPT ![k].pc = "done",
                                          ![k].response = Some(IF built THEN status
                                                               ELSE INTERNAL_SERVER_ERROR)]
       ELSE /\ built
            /\ proxy' = [proxy EXCEPT ![k].pc = "done", ![k].response = Some(BAD_REQUEST)]
            /\ UNCHANGED channel
    /\ UNCHANGED <<backends, gw_phase, selected, writer, db, app_state, discovery>>
    /\ UNCHANGED <<coreVars, codecVars>>

\* the gateway serving: the pool as polled, an AppState with the url of one of
\* the configured backends
InitProxy ==
    /\ Boot
    /\ host = FALSE
    /\ backends \in ProxyPools
    /\ gw_phase = "serving"
    /\ app_state \in {[backend_url |-> StaticBackends[k]] : k \in 1..Len(StaticBackends)}
    /\ GatewayQuiet
    /\ CodecIdle

NextProxy ==
    \/ ProxyArrive
    \/ \E k \in 1..MaxProxied, ok \in BOOLEAN : ProxyReadBody(k, ok)
    \/ \E k \in 1..MaxProxied, result \in SendResults : ProxySend(k, result)
    \/ \E k \in 1..MaxProxied, ok \in BOOLEAN, built \in BOOLEAN : ProxyReadResponse(k, ok, built)

SpecProxy == InitProxy /\ [][NextProxy]_vars

(***************************************************************************)
(* Gateway: db_writer_task.                                                *)
(***************************************************************************)
\* write_log_entry, INSERT OR REPLACE INTO tasks: the row of the entry's id
\* is the entry
write_log_entry(table, entry) ==
    [id \in DOMAIN table \cup {entry.id} |-> IF id = entry.id THEN entry ELSE table[id]]

\* if attempt < 2: whether a failed attempt is followed by a sleep and one more
backoff_follows(attempt) == attempt < 2

\* backoff_ms = 100 * 2_u64.pow(attempt)
backoff_ms(attempt) == 100 * 2^attempt

\* init_database returns: on an error the task returns and the receiver is
\* dropped
WriterInit(ok) ==
    /\ writer.pc = "new"
    /\ writer' = [writer EXCEPT !.pc = IF ok THEN "recv" ELSE "stopped"]
    /\ UNCHANGED <<backends, gw_phase, selected, proxy, channel, db, app_state, discovery>>
    /\ UNCHANGED <<coreVars, codecVars>>

\* rx.recv() returns the oldest queued entry; attempt 0 of the loop follows
WriterRecv ==
    /\ writer.pc = "recv"
    /\ channel # << >>
    /\ writer' = [pc |-> "write", entry |-> Head(channel), attempt |-> 0,
                  slept |-> << >>, success |-> FALSE, written |-> 0]
    /\ channel' = Tail(channel)
    /\ UNCHANGED <<backends, gw_phase, selected, proxy, db, app_state, discovery>>
    /\ UNCHANGED <<coreVars, codecVars>>

\* one pass of `for attempt in 0..3`: write_log_entry succeeds and the loop is
\* left, or fails and the task sleeps before the next attempt, or fails on
\* the last attempt and the entry is given up
WriterWrite(ok) ==
    /\ writer.pc = "write"
    /\ IF ok
       THEN /\ db' = write_log_entry(db, writer.entry)
            /\ writer' = [writer EXCEPT !.pc = "recv", !.success = TRUE,
                                        !.written = @ + 1]
       ELSE /\ UNCHANGED db
            /\ writer' = IF backoff_follows(writer.attempt)
                         THEN [writer EXCEPT !.pc = "sleep",
                                             !.slept = Append(@, backoff_ms(writer.attempt))]
                         ELSE [writer EXCEPT !.pc = "recv"]
    /\ UNCHANGED <<backends, gw_phase, selected, proxy, channel, app_state, discovery>>
    /\ UNCHANGED <<coreVars, codecVars>>

\* the sleep ends: the next attempt of the loop
WriterWake ==
    /\ writer.pc = "sleep"
    /\ writer' = [writer EXCEPT !.pc = "write", !.attempt = @ + 1]
    /\ UNCHANGED <<backends, gw_phase, selected, proxy, channel, db, app_state, discovery>>
    /\ UNCHANGED <<coreVars, codecVars>>

\* the gateway serving with its writer task, before the first poll
InitWriter ==
    /\ InitProxy
    /\ backends = [k \in 1..Len(StaticBackends) |-> NewBackend(StaticBackends[k])]
    /\ app_state.backend_url = StaticBackends[1]

NextWriter ==
    \/ NextProxy
    \/ \E ok \in BOOLEAN : WriterInit(ok)
    \/ WriterRecv
    \/ \E ok \in BOOLEAN : WriterWrite(ok)
    \/ WriterWake

SpecWriter == InitWriter /\ [][NextWriter]_vars

(***************************************************************************)
(* HTTP adapter: JSON <-> msgpack value conversion.                        *)
(***************************************************************************)
MaxLen == 2
MaxDepth == 2
IntBits == 4

\* i64::MAX, i64::MIN and u64::MAX of integers IntBits wide
I64_MAX == 2^(IntBits - 1) - 1
I64_MIN == 0 - 2^(IntBits - 1)
U64_MAX == 2^IntBits - 1

\* Result<_, String>
Ok(value) == [ok |-> TRUE, value |-> value]
Err(error) == [ok |-> FALSE, error |-> error]

\* f64 values: finite ones by twice their value, and the others
Finite(twice) == [twice |-> twice]
NaN == [special |-> "NaN"]
Infinity == [special |-> "inf"]
is_finite(f) == "twice" \in DOMAIN f

\* serde_json::Number: PosInt(u64), NegInt(i64), always negative, or
\* Float(f64), always finite; rmpv::Integer: PosInt(u64) or NegInt(i64)
PosInt(u) == [n |-> "PosInt", u |-> u]
NegInt(i) == [n |-> "NegInt", i |-> i]
Float(f) == [n |-> "Float", f |-> f]

\* serde_json::Value; the members of an object are kept sorted by key
JNull == [json |-> "Null"]
JBool(b) == [json |-> "Bool", b |-> b]
JNumber(number) == [json |-> "Number", number |-> number]
JString(s) == [json |-> "String", s |-> s]
JArray(items) == [json |-> "Array", items |-> items]
JObject(members) == [json |-> "Object", members |-> members]

\* rmpv::Value; a String may hold bytes that are no UTF-8
Nil == [msgpack |-> "Nil"]
Boolean(b) == [msgpack |-> "Boolean", b |-> b]
Integer(integer) == [msgpack |-> "Integer", integer |-> integer]
F32(f) == [msgpack |-> "F32", f |-> f]
F64(f) == [msgpack |-> "F64", f |-> f]
Utf8String(s, valid) == [msgpack |-> "String", s |-> s, valid |-> valid]
Binary(bytes) == [msgpack |-> "Binary", bytes |-> bytes]
Array(items) == [msgpack |-> "Array", items |-> items]
Map(pairs) == [msgpack |-> "Map", pairs |-> pairs]
Ext == [msgpack |-> "Ext"]

as_i64_never(number) == None

\* Number::as_i64 and Integer::as_i64
as_i64(number) ==
    IF number.n = "PosInt" THEN (IF number.u <= I64_MAX THEN Some(number.u) ELSE None)
    ELSE IF number.n = "NegInt" THEN Some(number.i)
    ELSE None

\* Integer::as_u64
as_u64(integer) == IF integer.n = "PosInt" THEN Some(integer.u) ELSE None

\* Number::as_f64
as_f64(number) ==
    IF number.n = "PosInt" THEN Some(Finite(2 * number.u))
    ELSE IF number.n = "NegInt" THEN Some(Finite(2 * number.i))
    ELSE Some(number.f)

\* From<i64> of serde_json::Number and of rmpv::Integer
from_i64(val) == IF val >= 0 THEN PosInt(val) ELSE NegInt(val)

\* json!(f) for a float: Number::from_f64, Null when f is not finite
from_f64(f) == IF is_finite(f) THEN JNumber(Float(f)) ELSE JNull

\* the keys in the order of the object's BTreeMap
ObjectKeys == <<"a", "b">>
Rank(key) == CHOOSE k \in 1..Len(ObjectKeys) : ObjectKeys[k] = key

\* serde_json::Map::insert: the member of the key is replaced, a new key goes
\* to its place in the order
RECURSIVE insert(_, _, _)
insert(members, key, value) ==
    IF members = << >> THEN << [key |-> key, value |-> value] >>
    ELSE IF Head(members).key = key
         THEN << [key |-> key, value |-> value] >> \o Tail(members)
         ELSE IF Rank(key) < Rank(Head(members).key)
              THEN << [key |-> key, value |-> value] >> \o members
              ELSE << Head(members) >> \o insert(Tail(members), key, value)

RECURSIVE json_to_msgpack_value(_)
RECURSIVE json_to_msgpack_values(_)
RECURSIVE json_to_msgpack_pairs(_)
RECURSIVE msgpack_value_to_json(_)
RECURSIVE msgpack_values_to_json(_)
RECURSIVE msgpack_map_to_json(_, _)

\* arr.iter().map(json_to_msgpack_value).collect(): the first error, or all
\* the values
json_to_msgpack_values(items) ==
    IF items = << >> THEN Ok(<< >>)
    ELSE LET first == json_to_msgpack_value(Head(items))
         IN  IF ~first.ok THEN first
             ELSE LET rest == json_to_msgpack_values(Tail(items))
                  IN  IF ~rest.ok THEN rest ELSE Ok(<< first.value >> \o rest.value)

\* obj.iter().map(|(k, v)| ..).collect(): the first error, or all the pairs
json_to_msgpack_pairs(members) ==
    IF members = << >> THEN Ok(<< >>)
    ELSE LET first == json_to_msgpack_value(Head(members).value)
         IN  IF ~first.ok THEN first
             ELSE LET rest == json_to_msgpack_pairs(Tail(members))
                  IN  IF ~rest.ok THEN rest
                      ELSE Ok(<< [key |-> Utf8String(Head(members).key, TRUE),
                                  value |-> first.value] >> \o rest.value)

\* json_to_msgpack_value
json_to_msgpack_value(json) ==
    IF json.json = "Null" THEN Ok(Nil)
    ELSE IF json.json = "Bool" THEN Ok(Boolean(json.b))
    ELSE IF json.json = "Number"
         THEN IF as_i64(json.number) # None
              THEN Ok(Integer(from_i64(as_i64(json.number).some)))
              ELSE IF as_f64(json.number) # None
                   THEN Ok(F64(as_f64(json.number).some))
                   ELSE Err("Invalid number")
    ELSE IF json.json = "String" THEN Ok(Utf8String(json.s, TRUE))
    ELSE IF json.json = "Array"
         THEN LET values == json_to_msgpack_values(json.items)
              IN  IF values.ok THEN Ok(Array(values.value)) ELSE values
    ELSE LET pairs == json_to_msgpack_pairs(json.members)
         IN  IF pairs.ok THEN Ok(Map(pairs.value)) ELSE pairs

\* arr.iter().map(msgpack_value_to_json).collect()
msgpack_values_to_json(items) ==
    IF items = << >> THEN Ok(<< >>)
    ELSE LET first == msgpack_value_to_json(Head(items))
         IN  IF ~first.ok THEN first
             ELSE LET rest == msgpack_values_to_json(Tail(items))
                  IN  IF ~rest.ok THEN rest ELSE Ok(<< first.value >> \o rest.value)

\* the loop over a Map's pairs: the key must be a String of UTF-8, then the
\* value is converted and inserted
msgpack_map_to_json(pairs, members) ==
    IF pairs = << >> THEN Ok(JObject(members))
    ELSE LET k == Head(pairs).key
         IN  IF k.msgpack # "String" THEN Err("Map keys must be strings")
             ELSE IF ~k.valid THEN Err("Invalid UTF-8")
             ELSE LET value == msgpack_value_to_json(Head(pairs).value)
                  IN  IF ~value.ok THEN value
                      ELSE msgpack_map_to_json(Tail(pairs), insert(members, k.s, value.value))

\* msgpack_value_to_json
msgpack_value_to_json(msgpack) ==
    IF msgpack.msgpack = "Nil" THEN Ok(JNull)
    ELSE IF msgpack.msgpack = "Boolean" THEN Ok(JBool(msgpack.b))
    ELSE IF msgpack.msgpack = "Integer"
         THEN IF as_i64(msgpack.integer) # None
              THEN Ok(JNumber(from_i64(as_i64(msgpack.integer).some)))
              ELSE IF as_u64(msgpack.integer) # None
                   THEN Ok(JNumber(PosInt(as_u64(msgpack.integer).some)))
                   ELSE Err("Integer out of range")
    ELSE IF msgpack.msgpack \in {"F32", "F64"} THEN Ok(from_f64(msgpack.f))
    ELSE IF msgpack.msgpack = "String"
         THEN IF msgpack.valid THEN Ok(JString(msgpack.s)) ELSE Err("Invalid UTF-8")
    ELSE IF msgpack.msgpack = "Binary"
         THEN Ok(JArray([k \in DOMAIN msgpack.bytes |-> JNumber(PosInt(msgpack.bytes[k]))]))
    ELSE IF msgpack.msgpack = "Array"
         THEN LET values == msgpack_values_to_json(msgpack.items)
              IN  IF values.ok THEN Ok(JArray(values.value)) ELSE values
    ELSE IF msgpack.msgpack = "Map" THEN msgpack_map_to_json(msgpack.pairs, << >>)
    ELSE Err("Extension types not supported")

\* the sequences over a set of at most MaxLen elements
SeqsUpTo(S) == UNION {[1..n -> S] : n \in 0..MaxLen}

\* the JSON values of request bodies: scalars, arrays and objects of them,
\* and these wrapped up to MaxDepth deep
JsonNumbers ==
    {PosInt(0), PosInt(I64_MAX), PosInt(I64_MAX + 1), NegInt(0 - 1), NegInt(I64_MIN),
     Float(Finite(2)), Float(Finite(3))}
JsonScalars ==
    {JNull, JBool(TRUE), JBool(FALSE), JString(""), JString("a")}
        \cup {JNumber(number) : number \in JsonNumbers}
JsonObjects(S) ==
    {JObject(<< >>)}
        \cup {JObject(<< [key |-> key, value |-> x] >>) : key \in {"a", "b"}, x \in S}
        \cup {JObject(<< [key |-> "a", value |-> x], [key |-> "b", value |-> y] >>) :
                 x \in S, y \in S}
JsonFlat ==
    JsonScalars \cup {JArray(items) : items \in SeqsUpTo(JsonScalars)}
        \cup JsonObjects(JsonScalars)
RECURSIVE JsonNested(_)
JsonNested(depth) ==
    IF depth <= 1 THEN JsonFlat
    ELSE LET inner == JsonNested(depth - 1)
         IN  inner \cup {JArray(<< x >>) : x \in inner}
                   \cup {JObject(<< [key |-> "a", value |-> x] >>) : x \in inner}
JsonValues == JsonNested(MaxDepth)

\* the values a worker's TaskResult may hold: maps of up to MaxLen pairs, and
\* arrays of such a map
MsgpackKeys ==
    {Utf8String("a", TRUE), Utf8String("b", TRUE), Utf8String("a", FALSE),
     Integer(PosInt(1))}
MsgpackScalars ==
    {Nil, Integer(NegInt(0 - 1)), Integer(PosInt(U64_MAX)), F64(NaN), F32(Finite(3)),
     Utf8String("a", TRUE), Binary(<< 1, 2 >>), Ext}
MsgpackMaps ==
    {Map(pairs) : pairs \in SeqsUpTo([key : MsgpackKeys, value : MsgpackScalars])}
MsgpackValues ==
    MsgpackScalars \cup MsgpackMaps \cup {Array(<< Nil, m >>) : m \in MsgpackMaps}

\* a request body to be converted for the worker, or a worker's result to be
\* converted for the response
InitCodec ==
    /\ Boot
    /\ host = FALSE
    /\ GatewayNew
    /\ codec \in {[pc |-> "encode", json |-> Ok(v), msgpack |-> None, back |-> None] :
                     v \in JsonValues}
            \cup {[pc |-> "decode", json |-> None, msgpack |-> Ok(m), back |-> None] :
                     m \in MsgpackValues}

\* json_to_msgpack_value(&request.args)
Encode ==
    /\ codec # None
    /\ codec.pc = "encode"
    /\ LET msgpack == json_to_msgpack_value(codec.json.value)
       IN  codec' = [codec EXCEPT !.msgpack = msgpack,
                                  !.pc = IF msgpack.ok THEN "decode" ELSE "done"]
    /\ UNCHANGED <<coreVars, gatewayVars>>

\* msgpack_value_to_json(&result_value)
Decode ==
    /\ codec # None
    /\ codec.pc = "decode"
    /\ codec' = [codec EXCEPT !.back = msgpack_value_to_json(codec.msgpack.value),
                              !.pc = "done"]
    /\ UNCHANGED <<coreVars, gatewayVars>>

NextCodec == Encode \/ Decode

SpecCodec == InitCodec /\ [][NextCodec]_vars

(***************************************************************************)
(* HTTP adapter: the responses of the errors.                              *)
(***************************************************************************)
SERVICE_UNAVAILABLE == 503
NOT_FOUND == 404

\* impl IntoResponse for AppError: the status code of the answer
into_response(error) ==
    IF error \in {"NoWorkersAvailable", "InsufficientResources"} THEN SERVICE_UNAVAILABLE
    ELSE IF error = "RouteNotFound" THEN NOT_FOUND
    ELSE IF error = "SerializationError" THEN BAD_REQUEST
    ELSE IF error = "ProxyError" THEN BAD_GATEWAY
    ELSE INTERNAL_SERVER_ERROR

(***************************************************************************)
(* Properties                                                              *)
(***************************************************************************)
Indices == 0..(Len(workers) - 1)

\* C1: a task that requires GPUs (num_gpus > 0) is only ever assigned to a
\* worker whose capabilities have num_gpus > 0: every TaskAssignment written
\* to a worker's socket with a GPU requirement sits on a GPU worker.
C1_GpuTaskOnGpuWorker ==
    \A i \in 1..Len(workers) :
        \A k \in 1..Len(workers[i].inbox) :
            is_gpu_task(workers[i].inbox[k].resources) => is_gpu_worker(workers[i])

\* C2: at every moment, on every worker and in each of the three dimensions,
\* the allocation is at least zero and at most the worker's capabilities.
C2_AllocationWithinCapabilities ==
    \A i \in 1..Len(workers) :
        LET a == workers[i].allocation
            c == workers[i].capabilities
        IN /\ 0 <= a.num_cpus /\ a.num_cpus <= c.num_cpus
           /\ 0 <= a.num_gpus /\ a.num_gpus <= c.num_gpus
           /\ 0 <= a.memory_gb /\ a.memory_gb <= c.memory_gb

\* C3: a worker has at most one TaskAssignment sent and not yet answered: at
\* most one handler awaits a reply from it and at most one assignment is
\* outstanding on its socket (received by the child and not yet answered, or
\* answered with the TaskResult not yet read).
C3_OneOutstandingAssignment ==
    \A i \in Indices :
        /\ Cardinality({h \in Handlers : pc[h] = "recv" /\ sel[h] = i}) <= 1
        /\ Len(At(workers, i).inbox)
              + Len(SelectSeq(At(workers, i).out, LAMBDA m : m.type = "TaskResult")) <= 1

\* C4: a request that arrives while every worker is busy at full allocation
\* is answered InsufficientResources; no request is queued to wait for
\* capacity.  arrivedFull[h] records that the pool had no capacity for h's
\* request when h arrived; such a request must leave the selector with
\* InsufficientResources.
C4_FullPoolRejects ==
    [][\A h \in Handlers :
          (pc[h] = "find" /\ arrivedFull[h] /\ pc'[h] # "find")
              => (pc'[h] = "done" /\ outcome'[h] = "InsufficientResources")]_vars

\* C5: once the worker has answered with a TaskResult, the worker's
\* allocation is what it was before the request and its state is Idle.
C5_AllocationRestored ==
    [][\A h \in Handlers :
          (pc[h] = "recv" /\ pc'[h] = "done" /\ outcome'[h] = "TaskResult")
              => /\ sel[h] < Len(workers')
                 /\ At(workers', sel[h]).allocation = allocBefore[h]
                 /\ At(workers', sel[h]).state = "Idle"]_vars

\* a request has completed with a TaskResult on a worker that is in the pool
WitnessC5 ==
    \E h \in Handlers :
        /\ pc[h] = "done"
        /\ outcome[h] = "TaskResult"
        /\ \E i \in 1..Len(workers) :
              workers[i].state = "Idle" /\ workers[i].allocation = ZeroAllocation

\* C6: for a request with num_gpus > 0 the selector never returns a worker
\* whose capabilities have no GPU, whatever the states, allocations and
\* cursor; it returns a GPU worker when one has capacity and None (the
\* handler answers InsufficientResources) when none has.
C6_GpuTaskNeverOnCpuWorker ==
    [][\A h \in Handlers :
          (pc[h] = "find" /\ pc'[h] # "find" /\ is_gpu_task(req[h]))
              => IF \E i \in Indices :
                       /\ At(workers, i).capabilities.num_gpus > 0
                       /\ has_capacity(At(workers, i), req[h])
                 THEN /\ pc'[h] = "acquire"
                      /\ sel'[h] \in Indices
                      /\ At(workers, sel'[h]).capabilities.num_gpus > 0
                 ELSE /\ pc'[h] = "done"
                      /\ outcome'[h] = "InsufficientResources"]_vars

\* a GPU request was refused although a CPU-only worker is Idle with
\* nothing allocated
WitnessC6 ==
    \E h \in Handlers :
        /\ pc[h] = "done"
        /\ outcome[h] = "InsufficientResources"
        /\ \E i \in Indices :
              /\ At(workers, i).capabilities.num_gpus = 0
              /\ At(workers, i).state = "Idle"
              /\ At(workers, i).allocation = ZeroAllocation
        /\ \E i \in Indices : At(workers, i).capabilities.num_gpus > 0

C8_RemovedWorkerIdle ==
    lastRemoved # None => (lastRemoved.state = "Idle" /\ lastRemoved.awaited = 0)

\* the recycler has removed a worker while a request is between selecting
\* its worker and acquiring the pool
WitnessC8 ==
    /\ lastRemoved # None
    /\ lastRemoved.state = "Idle"
    /\ \E h \in Handlers : pc[h] = "acquire"

\* C9: a tick collects no Busy worker, and a worker for which should_recycle
\* came to hold while it was Busy (deferred) is recycled by the first tick
\* that samples it Idle: when that tick ends it is no longer deferred.
C9_DeferredRecycledWhenIdle ==
    [][/\ (rpc = "sleep" /\ rpc' = "recycling")
            => \A k \in 1..Len(workers_to_recycle') :
                   At(workers', workers_to_recycle'[k]).state = "Idle"
       /\ (rpc = "recycling" /\ rpc' = "sleep")
            => deferred' \cap sampled = {}]_vars

\* the recycler has removed a worker that had been deferred while Busy
WitnessC9 ==
    /\ lastRemoved # None
    /\ lastRemoved.deferred
    /\ lastRemoved.id \in sampled

\* C10: when the recycler replaces a worker, the replacement is inserted at
\* the index the old worker had, with the same id, spawned from the spec of
\* the pool start() spawned it from and with the GPU devices start()
\* assigned (gpu_devices[i mod len]).
C10_ReplacementKeepsIdentity ==
    [][(recycling # None /\ recycling' = None /\ Len(workers') = Len(workers) + 1)
          => LET w == At(workers', recycling.idx)
             IN  /\ w.id = recycling.worker_id
                 /\ w.id = WorkerId(config[w.origin.pool], w.origin.idx)
                 /\ w.spec = w.origin.pool
                 /\ w.capabilities = config[w.origin.pool].resources
                 /\ w.gpu_devices = GpuAssign(config[w.origin.pool], w.origin.idx)]_vars

\* C11: tasks_completed counts the tasks a worker has completed: when a
\* handler receives a worker's TaskResult the worker's tasks_completed goes
\* up by one (so that should_recycle comes to hold at max_tasks_per_worker
\* and the next tick recycles the worker).
C11_TasksCompletedCounts ==
    [][\A h \in Handlers :
          (pc[h] = "recv" /\ pc'[h] = "done" /\ outcome'[h] = "TaskResult"
             /\ sel[h] < Len(workers))
              => At(workers', sel[h]).tasks_completed
                    = At(workers, sel[h]).tasks_completed + 1]_vars

\* C12: once Orchestrator::shutdown has returned the pool is empty and no
\* socket file exists for any worker that was in the pool, also for workers
\* whose handle shutdown returned an error.
C12_NoSocketAfterShutdown ==
    shutdown_pc = "done" => (workers = << >> /\ sockets \cap cameUp = {})

\* shutdown returned, nothing was ever recycled, and the shutdown of a
\* pooled worker's handle had failed
WitnessC12 ==
    shutdown_pc = "done" /\ expirations = 0 /\ orphans \cap cameUp # {}

\* C13: a handle dropped without a completed shutdown (readiness failure at
\* start or while recycling, pool lookup failure while recycling, a handle
\* shutdown that failed before waiting) has its child terminated, so that
\* once Orchestrator::shutdown has returned no child process of a worker
\* that was in the pool is left.
C13_NoChildAfterShutdown ==
    shutdown_pc = "done" => orphans \cap cameUp = {}

\* C14: Orchestrator::shutdown cancels the monitoring task before it shuts
\* down any handle, and once shutdown has returned no tick of the monitoring
\* task removes, spawns or inserts a worker: the pool stays empty.
C14_RecyclerCancelledBeforeShutdown ==
    [][/\ (shutdown_pc # "done" /\ shutdown_pc' = "done")
             => (monitoring_task # "running" /\ workers' = << >>)
       /\ shutdown_pc = "done"
             => (workers' = << >> /\ recycling' = None /\ workers_to_recycle' = << >>)]_vars

\* shutdown has returned and a tick that had been woken before the abort
\* is running over the emptied pool
WitnessC14 ==
    shutdown_pc = "done" /\ rpc = "recycling"

\* C15: a request that is between send and recv when Orchestrator::shutdown
\* is called is not cancelled: the handles are shut down only when no
\* handler is waiting for a reply any more, every handler that was waiting
\* having received its reply and released its worker.
C15_ShutdownWaitsForRequests ==
    [][(shutdown_pc # "done" /\ shutdown_pc' = "done")
          => /\ \A h \in Handlers : pc[h] # "recv"
             /\ \A k \in 1..Len(workers) : workers[k].state # "Busy"]_vars

\* shutdown has been called and waits for the pool while a handler is
\* between send and recv
WitnessC15 ==
    shutdown_pc = "aborted" /\ \E h \in Handlers : pc[h] = "recv" /\ lock = HandlerGuard(h)

\* C16: Orchestrator::start returns an error and does not start the
\* monitoring task exactly when no worker both spawned and became ready;
\* otherwise the pool holds exactly the workers that became ready, in the
\* order of the pool specification, each failed worker alone being left out.
C16_StartKeepsReadyWorkers ==
    [][(phase = "new" /\ phase' \in {"failed", "running"})
          => LET slots == PoolSlots(config, 1, 0)
                 ready == {k \in 1..Len(slots) : SlotId(config, slots[k]) \in cameUp'}
                 before(k) == Cardinality({j \in ready : j < k})
             IN  /\ (phase' = "failed") <=> (ready = {})
                 /\ (monitoring_task' = "running") <=> (ready # {})
                 /\ Len(workers') = Cardinality(ready)
                 /\ \A k \in ready :
                       /\ workers'[before(k) + 1].id = SlotId(config, slots[k])
                       /\ workers'[before(k) + 1].state = "Idle"]_vars

\* start has returned with one worker of the pool specification left out
WitnessC16 ==
    phase = "running" /\ shutdown_pc = "none" /\ rpc = "sleep" /\ expirations = 0
        /\ Len(workers) = 1 /\ Cardinality(cameUp) = 1

\* C17: wait_ready moves the worker from Starting to Idle and replaces its
\* capabilities by those of the message only when the first message is
\* WorkerReady; on anything else it fails, the record stays Starting and the
\* handle is never added to the pool.
C17_ReadyOnlyOnWorkerReady ==
    /\ \A k \in 1..Len(workers) :
          /\ workers[k].id \in cameUp
          /\ workers[k].state # "Starting"
          /\ workers[k].capabilities = announced[workers[k].id]
    /\ \A caps \in {config[p].resources : p \in 1..Len(config)},
          msg \in {Heartbeat, TaskResult("h1", TRUE), TaskResult("h1", FALSE)} :
          LET h == SpawnedWorker(<<"node", "0">>, caps, << >>, [pool |-> 1, idx |-> 0], 1)
          IN  wait_ready(h, msg) = [ok |-> FALSE, handle |-> h] /\ h.state = "Starting"

\* a worker is in the pool with the capabilities its WorkerReady announced,
\* which are not those of its pool, the other slot having been left out,
\* and serves a request
WitnessC17 ==
    /\ Len(workers) = 1
    /\ workers[1].capabilities # config[workers[1].spec].resources
    /\ workers[1].state = "Busy"

\* C18: when the child does not connect within the 10 second accept timeout
\* the spawn fails and the socket file it bound does not exist afterwards:
\* after start() no child that was spawned and left without a handle (the
\* accept timed out, or wait_ready failed) has a socket file.
C18_NoSocketAfterAcceptTimeout ==
    [][(phase = "new" /\ phase' # "new")
          => \A id \in orphans' \ cameUp' : id \notin sockets']_vars

\* C19: a worker that connects and never sends WorkerReady makes its spawn
\* fail within a bounded wait: start, and a tick of the monitoring task that
\* is replacing a worker, can always go on from waiting for readiness.
C19_ReadinessWaitEnds ==
    /\ phase = "waiting_ready" => ENABLED (NextHost /\ phase' # "waiting_ready")
    /\ (rpc = "waiting_ready" /\ monitoring_task = "running")
          => ENABLED (NextHost /\ rpc' # "waiting_ready")

\* C21: over N consecutive requests, each completing before the next is
\* selected, against k Idle workers of one profile that all have capacity,
\* every worker is selected floor(N/k) or ceil(N/k) times, from any initial
\* cursor position (N counts the requests for which a worker was selected).
C21_RoundRobinFair ==
    LET k == Len(picks)
        N == SumSeq(picks)
    IN  \A i \in 1..k : picks[i] \in {N \div k, (N + k - 1) \div k}

\* a pool of more than one worker has served an odd number of requests
WitnessC21 ==
    Len(picks) = 2 /\ SumSeq(picks) = 5 /\ pc["h1"] = "idle"

\* C22: a backend that was healthy stays healthy after one and after two
\* consecutive failed capacity polls and becomes unhealthy at the third; a
\* successful poll sets healthy and error_count = 0; so a healthy backend
\* always has error_count < 3.
C22_UnhealthyAtThirdFailure ==
    [][/\ \A k \in 1..Len(backends) : backends[k].healthy => backends[k].error_count < 3
       /\ (gw_phase = "serving" /\ backends' # backends)
             => \A k \in 1..Len(backends) :
                   IF backends'[k].error_count = backends[k].error_count + 1
                   THEN /\ backends[k].healthy => (backends'[k].healthy <=> backends'[k].error_count < 3)
                        /\ ~backends[k].healthy => ~backends'[k].healthy
                   ELSE backends'[k].healthy /\ backends'[k].error_count = 0]_vars

\* a backend is healthy with two failed polls behind it, another unhealthy
\* after three
WitnessC22 ==
    /\ Len(backends) >= 2
    /\ backends[1].healthy /\ backends[1].error_count = 2
    /\ ~backends[2].healthy /\ backends[2].error_count = 3 /\ backends[2].total # ZeroAllocation

\* the backends that are healthy and have at least the requested cpus, gpus
\* and memory available
Eligible(bs, r) ==
    {k \in 1..Len(bs) : /\ bs[k].healthy
                        /\ bs[k].available.num_cpus >= r.num_cpus
                        /\ bs[k].available.num_gpus >= r.num_gpus
                        /\ bs[k].available.memory_gb >= r.memory_gb}

\* C23: find_backend_with_resources never returns a backend that is
\* unhealthy or has less available than requested in cpus, gpus or memory,
\* and it returns None exactly when no backend of the pool is healthy with
\* enough available in all three.
C23_SelectedBackendEligible ==
    selected # << >>
        => LET call == selected[1]
           IN  /\ call.result.some
                     => /\ call.result.idx \in Eligible(backends, call.req)
                        /\ call.result.backend = backends[call.result.idx]
               /\ ~call.result.some <=> Eligible(backends, call.req) = {}

\* None was returned although an unhealthy backend has the resources, and a
\* healthy one has not
WitnessC23 ==
    /\ selected # << >>
    /\ ~selected[1].result.some
    /\ \E k \in 1..Len(backends) :
          ~backends[k].healthy /\ backend_has_capacity_unhealthy(backends[k], selected[1].req)
    /\ \E k \in 1..Len(backends) : backends[k].healthy /\ backends[k].total # ZeroAllocation

\* the eligible backend that no eligible backend is less utilized than, nor
\* as utilized and earlier in the pool
LeastUtilized(bs, r) ==
    CHOOSE k \in Eligible(bs, r) :
        \A j \in Eligible(bs, r) :
            /\ ~RatioLess(utilization(bs[j]), utilization(bs[k]))
            /\ j < k => RatioLess(utilization(bs[k]), utilization(bs[j]))

\* C24: among the eligible backends find_backend_with_resources returns one
\* of minimal utilization, the first in pool order when several share the
\* minimum; once the returned backend is marked unhealthy the next selection
\* returns the least utilized of the remaining eligible backends.
C24_LeastUtilizedFirst ==
    (selected # << >> /\ selected[1].result.some)
        => LET call == selected[1]
               marked == [backends EXCEPT ![call.result.idx] = PollFailed(PollFailed(PollFailed(@)))]
               next == find_backend_with_resources(marked, call.req)
               rest == Eligible(backends, call.req) \ {call.result.idx}
           IN  /\ call.result.idx = LeastUtilized(backends, call.req)
               /\ next.some <=> rest # {}
               /\ next.some => (next.idx \in rest /\ next.idx = LeastUtilized(marked, call.req))

\* the backend returned is not the first of the pool: an earlier eligible
\* one is more utilized, a later one is as utilized as the one returned
WitnessC24 ==
    /\ selected # << >> /\ selected[1].result.some
    /\ selected[1].result.idx = 2
    /\ 1 \in Eligible(backends, selected[1].req)
    /\ 3 \in Eligible(backends, selected[1].req)
    /\ ~RatioLess(utilization(backends[2]), utilization(backends[3]))
    /\ backends[2] # [backends[3] EXCEPT !.url = backends[2].url]

\* C25: a request is forwarded only to the url the selection returns for the
\* pool as it is; when the selection returns None for every request the
\* request is forwarded nowhere and the answer is 503 Service Unavailable
C25_ForwardsToSelectedBackend ==
    \A k \in DOMAIN proxy :
        /\ proxy[k].target_url # None
              => /\ proxy[k].selectable # {}
                 /\ proxy[k].target_url.some \in proxy[k].selectable
        /\ (proxy[k].pc = "done" /\ proxy[k].response # Some(BAD_REQUEST)
                /\ proxy[k].selectable = {})
              => (proxy[k].target_url = None /\ proxy[k].response = Some(503))

\* the places in the channel of the entries of one id with one of the statuses
Entries(id, statuses) ==
    {i \in DOMAIN channel : channel[i].id = id /\ channel[i].status \in statuses}

\* C26: a call that has returned after its `started` entry has queued exactly
\* one terminal entry with its id: `failed` with an error and the answer 502
\* when the send failed, else `completed` or `failed` by the backend's status
C26_OneTerminalEntry ==
    \A k \in DOMAIN proxy :
        (proxy[k].pc = "done" /\ Entries(proxy[k].task_id, {"started"}) # {})
            => LET terminal == Entries(proxy[k].task_id, {"completed", "failed"})
               IN  /\ Cardinality(terminal) = 1
                   /\ \A i \in terminal :
                         IF proxy[k].status = SendError
                         THEN /\ channel[i].status = "failed"
                              /\ channel[i].error # None
                              /\ proxy[k].response = Some(BAD_GATEWAY)
                         ELSE /\ channel[i].status_code = proxy[k].status
                              /\ channel[i].status = IF is_success(proxy[k].status.some)
                                                     THEN "completed" ELSE "failed"

\* C27: an entry the writer has finished with was either written, and then
\* exactly once, or given up after three retries with sleeps of 100, 200 and
\* 400 ms
C27_ThreeRetriesBeforeDrop ==
    (writer.pc = "recv" /\ writer.entry # None)
        => IF writer.success
           THEN writer.written = 1 /\ db[writer.entry.id] = writer.entry
           ELSE writer.slept = <<100, 200, 400>>

\* whether every integer of a JSON value is in the i64 range
RECURSIVE InI64Range(_)
InI64Range(json) ==
    IF json.json = "Number"
    THEN json.number.n = "PosInt" => json.number.u <= I64_MAX
    ELSE IF json.json = "Array"
         THEN \A k \in DOMAIN json.items : InI64Range(json.items[k])
    ELSE IF json.json = "Object"
         THEN \A k \in DOMAIN json.members : InI64Range(json.members[k].value)
    ELSE TRUE

\* whether a msgpack value holds nothing JSON cannot express: no Ext, no
\* String that is not UTF-8, no map key that is not a String
RECURSIVE Expressible(_)
Expressible(msgpack) ==
    IF msgpack.msgpack = "Ext" THEN FALSE
    ELSE IF msgpack.msgpack = "String" THEN msgpack.valid
    ELSE IF msgpack.msgpack = "Array"
         THEN \A k \in DOMAIN msgpack.items : Expressible(msgpack.items[k])
    ELSE IF msgpack.msgpack = "Map"
         THEN \A k \in DOMAIN msgpack.pairs :
                 /\ msgpack.pairs[k].key.msgpack = "String"
                 /\ msgpack.pairs[k].key.valid
                 /\ Expressible(msgpack.pairs[k].value)
    ELSE TRUE

\* the places of the keys of a map that are not a String
NonStringKeys(pairs) == {k \in DOMAIN pairs : pairs[k].key.msgpack # "String"}

\* a converted request body with integers in the i64 range came back as it was
RoundTripIsIdentity ==
    (codec # None /\ codec.pc = "done" /\ codec.json # None /\ InI64Range(codec.json.value))
        => (codec.msgpack.ok /\ codec.back = Ok(codec.json.value))

\* a result that is a map was converted
MapDecoded ==
    /\ codec # None /\ codec.pc = "done" /\ codec.json = None
    /\ codec.msgpack.value.msgpack = "Map"

RoundTripReached ==
    /\ codec # None /\ codec.pc = "done" /\ codec.json # None
    /\ codec.json.value = JObject(<< [key |-> "a",
                                       value |-> JArray(<< JNumber(PosInt(I64_MAX)),
                                                           JNumber(NegInt(I64_MIN)) >>)] >>)
    /\ codec.back = Ok(codec.json.value)

\* C29: a request with num_gpus = 0 is given a worker with a GPU only when no
\* CPU-only worker of the pool has capacity for it, Idle or not, whatever the
\* cursor
C29_GpuWorkerLastResort ==
    [][\A h \in Handlers :
          (/\ pc[h] = "find" /\ pc'[h] = "acquire"
           /\ ~is_gpu_task(req[h])
           /\ At(workers, sel'[h]).capabilities.num_gpus > 0)
              => ~\E i \in Indices :
                     /\ At(workers, i).capabilities.num_gpus = 0
                     /\ has_capacity(At(workers, i), req[h])]_vars

\* C30: when find_worker_with_resources returns None the handler ends with
\* InsufficientResources, answered with 503; no worker's record (state,
\* allocation, queued messages) and not the cursor has changed
C30_NoneLeavesPoolUntouched ==
    [][\A h \in Handlers :
          (/\ pc[h] = "find" /\ pc'[h] # "find"
           /\ ~find_worker_with_resources(workers, next_worker_index, req[h]).some)
              => /\ pc'[h] = "done"
                 /\ outcome'[h] = "InsufficientResources"
                 /\ into_response(outcome'[h]) = 503
                 /\ workers' = workers
                 /\ next_worker_index' = next_worker_index]_vars

\* a request was refused by a pool of two workers, one of them Busy, with the
\* cursor past the first worker
WitnessC30 ==
    \E h \in Handlers :
        /\ pc[h] = "done"
        /\ outcome[h] = "InsufficientResources"
        /\ Len(workers) = 2
        /\ next_worker_index = 1
        /\ \E i \in Indices : At(workers, i).state = "Busy"

\* C31: when the send or the recv of a request fails the handler ends with
\* WorkerCommunicationError, and the worker it had acquired then has the
\* allocation it had before the request's allocate, is Idle, and is not
\* locked by the handler any more
C31_CommunicationErrorReleases ==
    [][\A h \in Handlers :
          (/\ pc[h] \in {"acquire", "recv"} /\ pc'[h] = "done"
           /\ outcome'[h] = "WorkerCommunicationError")
              => /\ sel[h] < Len(workers')
                 /\ At(workers', sel[h]).id = At(workers, sel[h]).id
                 /\ At(workers', sel[h]).allocation =
                        (IF pc[h] = "recv" THEN allocBefore[h]
                         ELSE At(workers, sel[h]).allocation)
                 /\ At(workers', sel[h]).state = "Idle"
                 /\ lock' # HandlerGuard(h)]_vars

\* a request ended with WorkerCommunicationError and every worker of the pool
\* is Idle with nothing allocated
WitnessC31 ==
    \E h \in Handlers :
        /\ pc[h] = "done"
        /\ outcome[h] = "WorkerCommunicationError"
        /\ workers # << >>
        /\ \A i \in Indices :
              At(workers, i).state = "Idle" /\ At(workers, i).allocation = ZeroAllocation

\* C32: when the reply a handler receives is not a TaskResult the request
\* fails with UnexpectedResponse, the worker's allocation is restored and its
\* state reset, and the worker is taken out of service: after the step it is
\* due for recycling (should_recycle) or no longer in the pool
C32_ProtocolErrorRecyclesWorker ==
    [][\A h \in Handlers :
          (/\ pc[h] = "recv" /\ pc'[h] = "done"
           /\ outcome'[h] = "UnexpectedResponse")
              => /\ sel[h] < Len(workers')
                 /\ At(workers', sel[h]).allocation = allocBefore[h]
                 /\ At(workers', sel[h]).state = "Idle"
                 /\ \A i \in 0..(Len(workers') - 1) :
                       At(workers', i).id = At(workers, sel[h]).id
                           => should_recycle(At(workers', i))]_vars

\* a step of recycle_worker_at_index after which the replacement is not in
\* the pool and the tick was not cancelled: the spawn or the readiness wait
\* did not give a worker
ReplacementFailed ==
    /\ rpc = "recycling" /\ recycling # None
    /\ rpc' # "cancelled"
    /\ workers' = workers
    /\ (recycling' # recycling \/ rpc' # rpc)

\* a step in which the tick's loop calls recycle_worker_at_index with the
\* next collected index
IndexProcessed ==
    /\ rpc = "recycling" /\ recycling = None
    /\ rpc' # "cancelled"
    /\ workers_to_recycle # << >>
    /\ workers_to_recycle' # workers_to_recycle

\* a step of recycle_worker_at_index that takes the worker at the index out
\* of the pool
WorkerTakenOut == IndexProcessed /\ NextToRecycle(workers_to_recycle) < Len(workers)

\* C33: when the replacement of a recycled worker fails to spawn or to become
\* ready the pool is one worker shorter than before the removal, the other
\* workers are in the same order with the same records, and the tick goes on
\* with the indices it has still to process
C33_FailedReplacementLeavesSlotAbsent ==
    [][/\ WorkerTakenOut =>
            LET idx == NextToRecycle(workers_to_recycle)
            IN  /\ Len(workers') = Len(workers) - 1
                /\ \A i \in 0..(Len(workers') - 1) :
                      At(workers', i) = At(workers, IF i < idx THEN i ELSE i + 1)
       /\ ReplacementFailed =>
            /\ \A i \in 0..(Len(workers) - 1) :
                  At(workers, i).id # recycling.worker_id
            /\ rpc' = "recycling"
            /\ recycling' = None
            /\ workers_to_recycle' = workers_to_recycle
            /\ lock' = lock]_vars

\* the ids of the workers of a pool
IdsOf(ws) == {ws[k].id : k \in 1..Len(ws)}

\* C34: within one tick every collected index is, when it is processed, the
\* index of the worker that was collected at it, whichever of the earlier
\* replacements of the tick failed; and the tick removes no worker that it
\* did not collect
C34_CollectedIndicesStayValid ==
    [][/\ IndexProcessed =>
            LET idx == NextToRecycle(workers_to_recycle)
            IN  /\ idx < Len(workers)
                /\ <<idx, At(workers, idx).id>> \in collected
       /\ rpc \in {"recycling", "waiting_ready"} =>
            \A id \in IdsOf(workers) \ IdsOf(workers') :
                \E c \in collected : c[2] = id]_vars

\* a tick collected two workers, the replacement of the one at index 1 failed
\* and left its slot absent, and the worker at index 0 has been taken out
WitnessC34 ==
    /\ Cardinality(collected) = 2
    /\ rpc = "recycling"
    /\ recycling # None
    /\ recycling.idx = 0
    /\ workers = << >>
    /\ <<0, recycling.worker_id>> \in collected

\* whether two ratios are the same number
RatioEq(u, v) == u.num * v.den = v.num * u.den

\* what each dimension of a record contributes to its utilization: the used
\* share of the total, and 0 for a dimension whose total is 0
Contributions(b) ==
    {IF b.total.num_cpus > 0
     THEN Ratio(b.total.num_cpus - b.available.num_cpus, b.total.num_cpus)
     ELSE Ratio(0, 1),
     IF b.total.num_gpus > 0
     THEN Ratio(b.total.num_gpus - b.available.num_gpus, b.total.num_gpus)
     ELSE Ratio(0, 1)}

\* u is the greatest of the contributions of b
GreatestContribution(u, b) ==
    /\ \E p \in Contributions(b) : RatioEq(u, p)
    /\ \A p \in Contributions(b) : ~RatioLess(u, p)

\* C35 as stated: the utilization of a record is the greater of
\* 1 - avail_cpus/total_cpus and 1 - avail_gpus/total_gpus, a dimension whose
\* total is 0 contributing 0, for all totals, both being 0 included
C35_UtilizationIsGreatestContribution ==
    \A k \in 1..Len(selected) :
        GreatestContribution(selected[k].utilization, selected[k].backend)

\* C35: the utilization of a record with a CPU or a GPU total above 0 is the
\* greater of 1 - avail_cpus/total_cpus and 1 - avail_gpus/total_gpus, a
\* dimension whose total is 0 contributing 0; the utilization of a record
\* whose CPU and GPU totals are both 0 is 1
C35_UtilizationOfCapacity ==
    \A k \in 1..Len(selected) :
        LET b == selected[k].backend
            u == selected[k].utilization
        IN  IF b.total.num_cpus = 0 /\ b.total.num_gpus = 0
            THEN RatioEq(u, Ratio(1, 1))
            ELSE GreatestContribution(u, b)

\* the utilization of a record without CPUs and GPUs was taken, and it is 1
WitnessC35 ==
    /\ selected # << >>
    /\ selected[1].backend.total.num_cpus = 0
    /\ selected[1].backend.total.num_gpus = 0
    /\ selected[1].utilization = Ratio(1, 1)

\* the urls of the records of a pool
UrlsOf(bs) == {bs[k].url : k \in 1..Len(bs)}

\* the urls of the pods of a list that are Running and have an IP
RunningUrls(items) ==
    {Url(ip, PodPort) :
        ip \in {a \in PodIps : \E k \in 1..Len(items) :
                                   items[k].status = Some([pod_ip |-> Some(a),
                                                           phase |-> Some("Running")])}}

\* C36: a discovery refresh whose listing succeeded leaves a record for
\* exactly the urls of the Running pods with an IP, none twice, and the
\* records of the urls listed before and after keep their capacity figures,
\* healthy flag and error_count; a refresh whose listing failed leaves the
\* list as it was
C36_RefreshFollowsPodList ==
    [][(discovery.pc = "listed" /\ discovery'.pc = "sleep") =>
          IF discovery.result.ok
          THEN /\ UrlsOf(backends') = RunningUrls(discovery.result.items)
               /\ Cardinality(UrlsOf(backends')) = Len(backends')
               /\ \A k \in 1..Len(backends) :
                     backends[k].url \in RunningUrls(discovery.result.items)
                         => \E j \in 1..Len(backends') : backends'[j] = backends[k]
          ELSE backends' = backends]_vars

\* a refresh has removed a record and left a record in place that had been
\* polled with success, and the pool holds that record alone
WitnessC36 ==
    /\ discovery.pc = "sleep"
    /\ discovery # DiscoveryIdle /\ discovery # RefreshFailed
    /\ discovery.removed = 1
    /\ discovery.kept_healthy = 1
    /\ discovery.added = 0
    /\ Len(backends) = 1

\* C37: the worker a handler takes under the write lock, allocates on and
\* sends to is the worker the selector chose for it: the index is inside the
\* pool and the worker at it has the id the selector saw, whatever recycler
\* ticks, failed replacements or shutdown came in between
C37_DispatchOnSelectedWorker ==
    [][\A h \in Handlers :
          (pc[h] = "acquire" /\ pc'[h] # "acquire")
              => /\ sel[h] < Len(workers)
                 /\ At(workers, sel[h]).id = selId[h]]_vars

C39_UnpolledBackendNeverSelected ==
    \A c \in 1..Len(selected) :
        selected[c].result.some
            => /\ backends[selected[c].result.idx]
                      \notin UnpolledBackends(backends[selected[c].result.idx].url)
               /\ selected[c].result.backend \notin UnpolledBackends(selected[c].result.backend.url)

\* a request for (0, 0, 0) found a backend, and it is not the first of the
\* pool, which is as Backend::new made it
WitnessC39 ==
    /\ selected # << >>
    /\ selected[1].req = ZeroAllocation
    /\ backends[1] = NewBackend(StaticBackends[1])
    /\ selected[1].result.some

\* find_worker_with_resources without its third pass
FirstTwoPasses(ws, start_index, r) ==
    LET r1 == Scan(ws, start_index, [k \in 1..Len(ws) |-> Pass1(ws[k], r)])
        r2 == Scan(ws, start_index, [k \in 1..Len(ws) |-> Pass2(ws[k], r)])
    IN  IF ws = << >> THEN [some |-> FALSE, idx |-> 0]
        ELSE IF r1.some THEN r1
        ELSE IF r2.some THEN r2
        ELSE [some |-> FALSE, idx |-> 0]

\* the two loops of the third pass find no worker
ThirdPassFindsNone(ws, start_index, r) ==
    /\ ~Scan(ws, start_index, [k \in 1..Len(ws) |-> Pass3a(ws[k], r)]).some
    /\ ~Scan(ws, start_index, [k \in 1..Len(ws) |-> Pass3b(ws[k], r)]).some

C20_ResultAnswersOwnAssignment ==
    [][\A h \in Handlers :
          (pc[h] = "recv" /\ pc'[h] = "done" /\ outcome'[h] = "TaskResult"
             /\ sel[h] < Len(workers))
              => Head(At(workers, sel[h]).out).task_id = h]_vars
====
